---- MODULE Spec2Model ----
(***************************************************************************)
(* Model of the live audio session engine, class LiveClient                *)
(* (src/unnamed/part_000), as one client object driven by the browser's    *)
(* event loop.  Every action is one run-to-completion block of JavaScript: *)
(* the synchronous part of a call or callback up to its first await, or    *)
(* the continuation that runs when an awaited promise settles.             *)
(*                                                                         *)
(* The fields of the class keep their names.  A field holding a reference  *)
(* is "null" or the name of the object; the state of the object referred   *)
(* to (an AudioContext that is open, closing or closed; microphone tracks  *)
(* that are live or stopped) is kept in separate variables, because the    *)
(* code can drop a reference without releasing the object and the other    *)
(* way round.  The client is connected once, as its only caller            *)
(* (App.toggleLiveSession) creates a new LiveClient for every session;     *)
(* only MonitorSpec calls connect on a client again.                       *)
(***************************************************************************)
EXTENDS Integers, Sequences, FiniteSets

\* ---------------------------------------------------------------- bounds
MaxMsgs == 2               \* inbound messages delivered in one run
MaxDur == 2                \* longest decoded segment, in clock units
MaxTime == 2               \* last value of the playback clock explored
MaxCallerDisconnects == 2  \* disconnect() calls made by the caller
MaxVolumeTicks == 1        \* calls of callbacks.onVolume in one run
MaxFrames == 1             \* audio frames sent in one run
MaxSendFailures == 1       \* audio frames whose send fails in one run
MaxClients == 2            \* LiveClient objects the App creates in one run
MaxPresses == 4            \* presses of the microphone button in one run
NumBins == 2               \* frequency bins read from an analyser per sample
MaxReconnects == 1         \* further connect() calls on a client already used
MaxRuns == 2               \* calls of App.processDocument in one run
MaxUploads == 2            \* calls of App.handleFileUpload in one run
MaxAlerts == 1             \* pending timeouts of App.triggerLimitAlert
MaxHelpCalls == 1          \* calls of App.playHelpAudio in one run
MaxKeyWaits == 1           \* pending key selections started by one button

\* the page limit of the App (src/services/geminiService.ts, line 214)
MAX_PAGES == 5

VARIABLES
    \* fields of LiveClient
    session, inputAudioContext, outputAudioContext, mediaStream,
    processor, source, inputAnalyser, outputAnalyser, volumeInterval,
    nextStartTime, scheduledSources,
    \* objects the fields refer to, and the browser / remote side
    inCtxState, outCtxState, micTracks, procNode, srcNode, timerRunning,
    orphanTimers,
    remote, mimeType, outbound, clock, units, pendingDecodes,
    \* position of the two async methods
    pcConnect, pcDisconnect,
    \* observations
    onDisconnectCount, disconnectErrors, flushCount, msgCount,
    callerDisconnects, discDuringConnect, reconnects, decodeErrors,
    \* the volume timer's queued callback and the calls of callbacks.onVolume
    tickPending, onVolumeCount,
    \* the latest sample, if any: the bins read and the levels handed to
    \* callbacks.onVolume by the last run of the timer callback
    volumeSample,
    \* the playback units whose onended handler has run
    endedFired,
    \* the App component (src/services/geminiService.ts): its React state,
    \* the value of isMicActive in the rendered click handler, the ref, the
    \* button presses so far and every LiveClient it has created
    isMicActive, renderedIsMicActive, liveClientRef, liveError, presses,
    clients,
    \* the App's document pipeline: its React state
    appState, capturedPages, limitAlert, analysis, comicUrl, isApiError,
    showWebcam, isHelpPlaying,
    \* the narration player: the state of the App's AudioContext, the ref
    \* currentAudioSource and every source playAudio has started
    audioCtxState, currentAudioSource, audioSources,
    \* the state as of the last render, which is what the click handlers on
    \* screen read, and the uploads whose CAPTURING screen is not rendered yet
    rendered, unshown,
    \* the calls in progress: handleFileUpload, processDocument, playAudio,
    \* playHelpAudio, the two key-selection waits started by a button, and
    \* the timeouts of triggerLimitAlert
    uploads, runs, plays, helpPc, cameraPending, keyResetPending, alertTimers,
    \* shutter changes its value with every call of capturePage; helpCalls
    \* counts the calls of playHelpAudio
    shutter, helpCalls

fieldVars == <<session, inputAudioContext, outputAudioContext, mediaStream,
               processor, source, inputAnalyser, outputAnalyser,
               volumeInterval, nextStartTime, scheduledSources>>
envVars == <<inCtxState, outCtxState, micTracks, procNode, srcNode,
             timerRunning, orphanTimers, remote, mimeType, outbound, clock,
             units, pendingDecodes>>
pcVars == <<pcConnect, pcDisconnect>>
obsVars == <<onDisconnectCount, disconnectErrors, flushCount, msgCount,
             callerDisconnects, discDuringConnect, reconnects, decodeErrors>>
captureVars == <<tickPending, onVolumeCount, volumeSample>>
playVars == <<endedFired>>
\* variables that no step of connect, disconnect or the playback scheduler
\* writes
appVars == <<isMicActive, renderedIsMicActive, liveClientRef, liveError,
             presses, clients>>
docState == <<appState, capturedPages, limitAlert, analysis, comicUrl,
              isApiError, showWebcam, isHelpPlaying>>
audioVars == <<audioCtxState, currentAudioSource, audioSources>>
viewVars == <<rendered, unshown>>
taskVars == <<uploads, runs, plays, helpPc, cameraPending, keyResetPending,
              alertTimers>>
countVars == <<shutter, helpCalls>>
docVars == <<docState, audioVars, viewVars, taskVars, countVars>>
restVars == <<captureVars, appVars, playVars, docVars>>
vars == <<fieldVars, envVars, pcVars, obsVars, restVars>>

\* ------------------------------------------------------------ value sets
CtxStates == {"none", "open", "closing", "closed"}
UnitStatus == {"scheduled", "stopped", "ended"}
MimeTypes == {"image/jpeg", "application/pdf"}

\* values of one entry of the Uint8Array filled by getByteFrequencyData
ByteSamples == {0, 128, 255}
\* the contents of that array: one byte for every frequency bin
BinData == [1..NumBins -> ByteSamples]
\* the array read from a tap that carries no signal
Silence == [i \in 1..NumBins |-> 0]

\* One inbound LiveServerMessage: audio = 0 means no inlineData payload,
\* otherwise the duration of the decoded buffer; ok = FALSE is a payload
\* whose decode throws.
Messages ==
    {m \in [audio : 0..MaxDur, ok : BOOLEAN, interrupted : BOOLEAN] :
        /\ m.audio = 0 => m.ok
        /\ ~m.ok => m.audio = 1}

\* --------------------------------------------------------- pure helpers
\* Each helper is preceded by a faulty variant of it (suffix after the
\* underscore), used to test that the properties below depend on the helper.
\* queueAudioOutput, lines 168-171: the start time given to source.start
ScheduleStart_NoClamp(next, cur) == next
ScheduleStart_AtClock(next, cur) == cur
ScheduleStart(next, cur) == IF next < cur THEN cur ELSE next

\* queueAudioOutput, line 174: the cursor after scheduling a buffer
AdvanceCursor_Stuck(start, dur) == start
AdvanceCursor(start, dur) == start + dur

\* stopAudioOutput, lines 187-189: source.stop() on every member of the set
StopSources_NoStop(us, set) == us
StopSources(us, set) ==
    [i \in DOMAIN us |->
        IF i \in set /\ us[i].status = "scheduled"
        THEN [us[i] EXCEPT !.status = "stopped"]
        ELSE us[i]]

\* stopAudioOutput, line 191: the cursor after a flush
ResetCursor_Keep(next) == next
ResetCursor(next) == 0

\* disconnect, lines 209-212: every track of the stream is stopped
ReleaseMic_NoStop(stream, tracks) == tracks
ReleaseMic(stream, tracks) == IF stream # "null" THEN "stopped" ELSE tracks

\* onopen, line 68: mimeType.startsWith('image/'), on the media types of
\* MimeTypes
StartsWithImage_Never(mt) == FALSE
StartsWithImage_Always(mt) == TRUE
StartsWithImage(mt) == mt \in {"image/jpeg"}

\* disconnect, lines 196-199: clearInterval on the handle in volumeInterval
ClearInterval_Leak(handle, running) == running
ClearInterval(handle, running) == IF handle # "null" THEN FALSE ELSE running

\* AudioContext.close() (called at lines 214 and 218) resolves only for a
\* context that is open; for one that is closing or closed the returned
\* promise is rejected with InvalidStateError.
CloseResolves(ctxState) == ctxState = "open"

\* decodeAudioData (imported from ./audioUtils, awaited at line 159): the
\* pending decode whose promise settles next.  Decodes settle in the order
\* they were started.
NextDecoded(q) == Head(q)

Init ==
    /\ session = "null" /\ inputAudioContext = "null"
    /\ outputAudioContext = "null" /\ mediaStream = "null"
    /\ processor = "null" /\ source = "null"
    /\ inputAnalyser = "null" /\ outputAnalyser = "null"
    /\ volumeInterval = "null"
    /\ nextStartTime = 0 /\ scheduledSources = {}
    /\ inCtxState = "none" /\ outCtxState = "none" /\ micTracks = "none"
    /\ procNode = "none" /\ srcNode = "none" /\ timerRunning = FALSE
    /\ orphanTimers = 0
    /\ remote = "none" /\ mimeType = "unread" /\ outbound = << >>
    /\ clock = 0 /\ units = << >> /\ pendingDecodes = << >>
    /\ pcConnect = "idle" /\ pcDisconnect = "idle"
    /\ onDisconnectCount = 0 /\ disconnectErrors = 0
    /\ flushCount = 0 /\ msgCount = 0 /\ callerDisconnects = 0
    /\ discDuringConnect = FALSE /\ decodeErrors = 0 /\ reconnects = 0
    /\ tickPending = FALSE /\ onVolumeCount = 0
    /\ volumeSample = << >>
    /\ endedFired = {}
    /\ isMicActive = FALSE /\ renderedIsMicActive = FALSE
    /\ liveClientRef = 0 /\ liveError = "null"
    /\ presses = 0 /\ clients = << >>
    /\ appState = "LANDING" /\ capturedPages = << >>
    /\ limitAlert = "null" /\ analysis = 0 /\ comicUrl = << >>
    /\ isApiError = FALSE /\ showWebcam = FALSE /\ isHelpPlaying = FALSE
    /\ audioCtxState = "suspended" /\ currentAudioSource = 0
    /\ audioSources = << >>
    /\ rendered = [appState |-> "LANDING", capturedPages |-> << >>,
                   limitAlert |-> "null", isApiError |-> FALSE,
                   showWebcam |-> FALSE, isHelpPlaying |-> FALSE,
                   analysis |-> 0, comicUrl |-> << >>]
    /\ unshown = {}
    /\ uploads = << >> /\ runs = << >> /\ plays = << >>
    /\ helpPc = "idle" /\ cameraPending = 0 /\ keyResetPending = 0
    /\ alertTimers = 0 /\ shutter = FALSE /\ helpCalls = 0

\* ------------------------------------------------------------- connect()
\* startVolumeMonitoring, lines 105-113: a timer left in volumeInterval is
\* cleared and replaced, so exactly the new timer runs afterwards.  A timer
\* still running when its handle is overwritten at line 108 could never be
\* cleared again; orphanTimers counts those.
startVolumeMonitoring_NoClear ==
    /\ orphanTimers' = IF timerRunning THEN orphanTimers + 1
                       ELSE orphanTimers
    /\ timerRunning' = TRUE
    /\ volumeInterval' = "timer"
startVolumeMonitoring ==
    /\ orphanTimers' = IF ClearInterval(volumeInterval, timerRunning)
                       THEN orphanTimers + 1 ELSE orphanTimers
    /\ timerRunning' = TRUE
    /\ volumeInterval' = "timer"

\* connect, lines 28-48: both contexts and analysers are created, the volume
\* timer is started, and the call suspends on getUserMedia.
connect ==
    /\ inputAudioContext' = "ctx" /\ inCtxState' = "open"
    /\ outputAudioContext' = "ctx" /\ outCtxState' = "open"
    /\ inputAnalyser' = "analyser" /\ outputAnalyser' = "analyser"
    /\ clock' = 0
    /\ startVolumeMonitoring
    /\ pcConnect' = "awaitMic"
    /\ UNCHANGED <<session, mediaStream, processor, source, nextStartTime,
                   scheduledSources, micTracks, procNode, srcNode, remote,
                   mimeType, outbound, units, pendingDecodes, pcDisconnect,
                   onDisconnectCount, disconnectErrors, flushCount, msgCount,
                   callerDisconnects, discDuringConnect, decodeErrors,
                   restVars>>

\* the first call of connect on a client
Connect_Start ==
    /\ pcConnect = "idle"
    /\ connect
    /\ UNCHANGED reconnects

\* a further call of connect on the same client, made by a caller that has
\* seen the previous connect settle and is not waiting for a disconnect.
\* The state variables follow the objects the fields refer to: a context,
\* stream or connection of the earlier call that was not released is no
\* longer followed once its field has been overwritten.
Connect_Again ==
    /\ pcConnect \in {"done", "rejected"}
    /\ pcDisconnect = "idle"
    /\ reconnects < MaxReconnects
    /\ reconnects' = reconnects + 1
    /\ connect

\* connect, lines 48-102, getUserMedia resolved: the stream is stored, the
\* remote connection is started (not awaited) and connect() returns.
Connect_MicGranted ==
    /\ pcConnect = "awaitMic"
    /\ mediaStream' = "stream" /\ micTracks' = "live"
    /\ remote' = "connecting"
    /\ session' = "promise"
    /\ pcConnect' = "done"
    /\ UNCHANGED <<inputAudioContext, outputAudioContext, processor, source,
                   inputAnalyser, outputAnalyser, volumeInterval,
                   nextStartTime, scheduledSources, inCtxState, outCtxState,
                   procNode, srcNode, timerRunning, orphanTimers, mimeType,
                   outbound, clock,
                   units, pendingDecodes, pcDisconnect, obsVars,
                   restVars>>

\* connect, line 48, getUserMedia rejected: the exception leaves connect();
\* there is no catch or finally in the method.
Connect_MicDenied ==
    /\ pcConnect = "awaitMic"
    /\ pcConnect' = "rejected"
    /\ UNCHANGED <<fieldVars, envVars, pcDisconnect, obsVars,
                   restVars>>

\* ------------------------------------------------- playback scheduler
\* stopAudioOutput, lines 186-192
stopAudioOutput ==
    /\ units' = StopSources(units, scheduledSources)
    /\ scheduledSources' = {}
    /\ nextStartTime' = ResetCursor(nextStartTime)
    /\ flushCount' = flushCount + 1

\* the pending decodes once an interruption signal has been handled: each
\* keeps the note that a signal came after its payload had arrived
NoteInterruption(q) ==
    [i \in DOMAIN q |-> [q[i] EXCEPT !.interrupted = TRUE]]

\* onmessage, lines 81-90, with the synchronous part of queueAudioOutput
\* (lines 155-159): the payload's decode is started and not awaited by the
\* handler; an interrupted flag then flushes the playback.
Remote_Message(m) ==
    /\ remote = "open"
    /\ msgCount < MaxMsgs
    /\ msgCount' = msgCount + 1
    /\ LET started ==
               IF m.audio > 0 /\ outputAudioContext # "null"
                  /\ outputAnalyser # "null"
               THEN Append(pendingDecodes,
                        [seq |-> msgCount + 1, dur |-> m.audio, ok |-> m.ok,
                         interrupted |-> FALSE])
               ELSE pendingDecodes
       IN  pendingDecodes' = IF m.interrupted THEN NoteInterruption(started)
                             ELSE started
    /\ IF m.interrupted
       THEN stopAudioOutput
       ELSE UNCHANGED <<units, scheduledSources, nextStartTime, flushCount>>
    /\ UNCHANGED <<session, inputAudioContext, outputAudioContext,
                   mediaStream, processor, source, inputAnalyser,
                   outputAnalyser, volumeInterval, inCtxState, outCtxState,
                   micTracks, procNode, srcNode, timerRunning, orphanTimers,
                   remote,
                   mimeType, outbound, clock, pcVars, onDisconnectCount,
                   disconnectErrors, callerDisconnects, discDuringConnect,
                   reconnects,
                   decodeErrors, restVars>>

\* queueAudioOutput, lines 159-161: the try block gets past the decode and
\* createBufferSource when the decode did not throw and the context field
\* was not cleared meanwhile (TypeError on null)
DecodeSucceeds_Always(p, ctx) == TRUE
DecodeSucceeds(p, ctx) == p.ok /\ ctx # "null"

\* queueAudioOutput, lines 159-183, the continuation after the decode: a
\* failure lands in the catch, which logs it; otherwise the buffer is
\* scheduled.  A unit records the message it came from (seq), the clock read
\* at line 168 (clockAt) and the number of flushes before it (epoch).
Decode_Done ==
    /\ pendingDecodes # << >>
    /\ LET p == NextDecoded(pendingDecodes)
           start == ScheduleStart(nextStartTime, clock)
       IN  /\ pendingDecodes' = Tail(pendingDecodes)
           /\ IF DecodeSucceeds(p, outputAudioContext)
              THEN /\ units' = Append(units,
                        [seq |-> p.seq, start |-> start, dur |-> p.dur,
                         clockAt |-> clock, epoch |-> flushCount,
                         status |-> "scheduled"])
                   /\ nextStartTime' = AdvanceCursor(start, p.dur)
                   /\ scheduledSources' =
                          scheduledSources \cup {Len(units) + 1}
                   /\ UNCHANGED decodeErrors
              ELSE /\ decodeErrors' = decodeErrors + 1
                   /\ UNCHANGED <<units, nextStartTime, scheduledSources>>
    /\ UNCHANGED <<session, inputAudioContext, outputAudioContext,
                   mediaStream, processor, source, inputAnalyser,
                   outputAnalyser, volumeInterval, inCtxState, outCtxState,
                   micTracks, procNode, srcNode, timerRunning, orphanTimers,
                   remote,
                   mimeType, outbound, clock, pcVars, onDisconnectCount,
                   disconnectErrors, flushCount, msgCount, callerDisconnects,
                   discDuringConnect, reconnects, restVars>>

\* source.onended, lines 177-179: a unit whose end has been reached on the
\* playback clock removes itself from the set.
Source_Ended_KeepsMember(i) ==
    /\ i \in scheduledSources
    /\ units[i].status = "scheduled"
    /\ clock >= units[i].start + units[i].dur
    /\ units' = [units EXCEPT ![i].status = "ended"]
    /\ endedFired' = endedFired \cup {i}
    /\ UNCHANGED <<fieldVars, inCtxState, outCtxState, micTracks, procNode,
                   srcNode, timerRunning, orphanTimers, remote, mimeType,
                   outbound, clock,
                   pendingDecodes, pcVars, obsVars, captureVars, appVars,
                   docVars>>
Source_Ended(i) ==
    /\ i \in scheduledSources
    /\ units[i].status = "scheduled"
    /\ clock >= units[i].start + units[i].dur
    /\ units' = [units EXCEPT ![i].status = "ended"]
    /\ scheduledSources' = scheduledSources \ {i}
    /\ endedFired' = endedFired \cup {i}
    /\ UNCHANGED <<session, inputAudioContext, outputAudioContext,
                   mediaStream, processor, source, inputAnalyser,
                   outputAnalyser, volumeInterval, nextStartTime, inCtxState,
                   outCtxState, micTracks, procNode, srcNode, timerRunning,
                   orphanTimers,
                   remote, mimeType, outbound, clock, pendingDecodes, pcVars,
                   obsVars, captureVars, appVars, docVars>>

\* source.onended, lines 177-179, for a unit that stopAudioOutput has
\* stopped: stop() makes the browser deliver the ended event as well, once,
\* and the handler deletes from the set a unit that is no longer in it.
Source_EndedAfterStop(i) ==
    /\ units[i].status = "stopped"
    /\ i \notin endedFired
    /\ endedFired' = endedFired \cup {i}
    /\ scheduledSources' = scheduledSources \ {i}
    /\ UNCHANGED <<session, inputAudioContext, outputAudioContext,
                   mediaStream, processor, source, inputAnalyser,
                   outputAnalyser, volumeInterval, nextStartTime, envVars,
                   pcVars, obsVars, captureVars, appVars, docVars>>

\* outputAudioContext.currentTime (read at line 168) advances while the
\* playback context is running.
Tick ==
    /\ outCtxState = "open"
    /\ clock < MaxTime
    /\ clock' = clock + 1
    /\ UNCHANGED <<fieldVars, inCtxState, outCtxState, micTracks, procNode,
                   srcNode, timerRunning, orphanTimers, remote, mimeType,
                   outbound, units,
                   pendingDecodes, pcVars, obsVars,
                   restVars>>

\* ---------------------------------------------------------- remote open
\* startAudioInput, lines 129-153.  createMediaStreamSource on a context
\* that is no longer open either throws or returns a node, depending on the
\* browser; both outcomes are kept.
startAudioInput ==
    IF inputAudioContext = "null" \/ mediaStream = "null"
       \/ inputAnalyser = "null"
    THEN UNCHANGED <<source, processor, srcNode, procNode>>
    ELSE \E throws \in (IF inCtxState = "open" THEN {FALSE} ELSE BOOLEAN) :
            IF throws
            THEN UNCHANGED <<source, processor, srcNode, procNode>>
            ELSE /\ source' = "node" /\ srcNode' = "connected"
                 /\ processor' = "node" /\ procNode' = "connected"

\* onopen, lines 65-80.  mt is the mimeType argument of connect, which is
\* read only here.  The image is sent from a then-callback on the session
\* promise, which resolves as soon as onopen has returned; then the capture
\* graph is built.
Remote_Open(mt) ==
    /\ remote = "connecting"
    /\ remote' = "open"
    /\ mimeType' = mt
    /\ outbound' = IF StartsWithImage(mt)
                   THEN Append(outbound, "image") ELSE outbound
    /\ startAudioInput
    /\ UNCHANGED <<session, inputAudioContext, outputAudioContext,
                   mediaStream, inputAnalyser, outputAnalyser,
                   volumeInterval, nextStartTime, scheduledSources,
                   inCtxState, outCtxState, micTracks, timerRunning,
                   orphanTimers, clock,
                   units, pendingDecodes, pcVars, obsVars,
                   restVars>>

\* ---------------------------------------------------------- disconnect()
\* disconnect, lines 217-223, entered at the test of outputAudioContext.
\* pcAfter is the position of the suspended disconnect once this call has
\* returned or thrown.
CloseOutputAndFinish(pcAfter) ==
    IF outputAudioContext # "null"
    THEN /\ IF CloseResolves(outCtxState)
            THEN /\ outCtxState' = "closing"
                 /\ pcDisconnect' = "awaitOut"
                 /\ UNCHANGED disconnectErrors
            ELSE /\ disconnectErrors' = disconnectErrors + 1
                 /\ pcDisconnect' = pcAfter
                 /\ UNCHANGED outCtxState
         /\ UNCHANGED <<session, onDisconnectCount>>
    ELSE /\ session' = "null"
         /\ onDisconnectCount' = onDisconnectCount + 1
         /\ pcDisconnect' = pcAfter
         /\ UNCHANGED <<outCtxState, disconnectErrors>>

\* disconnect, lines 194-214: the synchronous part of one call, up to the
\* first await (or to the end when both context fields are null).
disconnect ==
    /\ stopAudioOutput
    /\ timerRunning' = ClearInterval(volumeInterval, timerRunning)
    /\ volumeInterval' = "null"
    /\ procNode' = IF processor # "null" THEN "disconnected" ELSE procNode
    /\ processor' = "null"
    /\ srcNode' = IF source # "null" THEN "disconnected" ELSE srcNode
    /\ source' = "null"
    /\ micTracks' = ReleaseMic(mediaStream, micTracks)
    /\ mediaStream' = "null"
    /\ IF inputAudioContext # "null"
       THEN /\ IF CloseResolves(inCtxState)
               THEN /\ inCtxState' = "closing"
                    /\ pcDisconnect' = "awaitIn"
                    /\ UNCHANGED disconnectErrors
               ELSE /\ disconnectErrors' = disconnectErrors + 1
                    /\ UNCHANGED <<inCtxState, pcDisconnect>>
            /\ UNCHANGED <<session, onDisconnectCount, outCtxState>>
       ELSE /\ CloseOutputAndFinish(pcDisconnect)
            /\ UNCHANGED inCtxState
    /\ discDuringConnect' = (discDuringConnect \/ pcConnect = "awaitMic")
    /\ UNCHANGED <<inputAudioContext, outputAudioContext, inputAnalyser,
                   outputAnalyser, orphanTimers, mimeType, outbound, clock,
                   pendingDecodes, pcConnect, msgCount, reconnects,
                   decodeErrors, restVars>>

\* the caller invokes disconnect() (App.toggleLiveSession, resetApp, unmount)
Caller_Disconnect ==
    /\ callerDisconnects < MaxCallerDisconnects
    /\ callerDisconnects' = callerDisconnects + 1
    /\ disconnect
    /\ UNCHANGED remote

\* onclose, lines 91-94
Remote_Close ==
    /\ remote \in {"connecting", "open", "errored"}
    /\ remote' = "closed"
    /\ disconnect
    /\ UNCHANGED callerDisconnects

\* onerror, lines 95-98; a connection reports an error once, delivers
\* nothing more, and closes afterwards.
Remote_Error ==
    /\ remote \in {"connecting", "open"}
    /\ remote' = "errored"
    /\ disconnect
    /\ UNCHANGED callerDisconnects

\* disconnect, lines 214-223: inputAudioContext.close() has resolved
Disconnect_InputClosed ==
    /\ pcDisconnect = "awaitIn"
    /\ inCtxState' = "closed"
    /\ inputAudioContext' = "null"
    /\ CloseOutputAndFinish("idle")
    /\ UNCHANGED <<outputAudioContext, mediaStream, processor, source,
                   inputAnalyser, outputAnalyser, volumeInterval,
                   nextStartTime, scheduledSources, micTracks, procNode,
                   srcNode, timerRunning, orphanTimers, remote, mimeType,
                   outbound, clock,
                   units, pendingDecodes, pcConnect, flushCount, msgCount,
                   callerDisconnects, discDuringConnect, reconnects,
                   decodeErrors,
                   restVars>>

\* disconnect, lines 218-223: outputAudioContext.close() has resolved
Disconnect_OutputClosed ==
    /\ pcDisconnect = "awaitOut"
    /\ outCtxState' = "closed"
    /\ outputAudioContext' = "null"
    /\ session' = "null"
    /\ onDisconnectCount' = onDisconnectCount + 1
    /\ pcDisconnect' = "idle"
    /\ UNCHANGED <<inputAudioContext, mediaStream, processor, source,
                   inputAnalyser, outputAnalyser, volumeInterval,
                   nextStartTime, scheduledSources, inCtxState, micTracks,
                   procNode, srcNode, timerRunning, orphanTimers, remote,
                   mimeType,
                   outbound, clock, units, pendingDecodes, pcConnect,
                   disconnectErrors, flushCount, msgCount, callerDisconnects,
                   discDuringConnect, reconnects, decodeErrors,
                   restVars>>

\* ------------------------------------------------------- volume monitor
\* setInterval(..., 50), line 108: while the timer is active the browser
\* queues one run of its callback at a time.
Timer_Fire ==
    /\ timerRunning /\ ~tickPending
    /\ onVolumeCount < MaxVolumeTicks
    /\ tickPending' = TRUE
    /\ UNCHANGED <<fieldVars, envVars, pcVars, obsVars, onVolumeCount,
                   volumeSample, appVars, playVars, docVars>>

\* getVolume, lines 115-127.  A level is kept as the exact fraction
\* num / den.  Lines 121-124: the sum of the bytes of the array.
RECURSIVE SumBytes(_)
SumBytes(bins) ==
    IF bins = << >> THEN 0 ELSE Head(bins) + SumBytes(Tail(bins))

\* the level returned for no analyser, line 116
ZeroLevel == [num |-> 0, den |-> 1]

\* lines 116-126: 0 without an analyser, otherwise the average of the bytes
\* (sum / length) divided by 255
getVolume_NotNormalized(analyser, bins) ==
    IF analyser = "null" THEN ZeroLevel
    ELSE [num |-> SumBytes(bins), den |-> Len(bins)]
getVolume(analyser, bins) ==
    IF analyser = "null" THEN ZeroLevel
    ELSE [num |-> SumBytes(bins), den |-> Len(bins) * 255]

\* the queued run of the timer callback, lines 108-112: a run queued for a
\* timer that clearInterval has removed meanwhile is dropped by the browser;
\* otherwise both levels are read and handed to callbacks.onVolume.  inBins
\* and outBins are what getByteFrequencyData returns for the two analysers.
Volume_Tick_Notifies(inBins, outBins) ==
    /\ tickPending
    /\ tickPending' = FALSE
    /\ IF timerRunning
       THEN /\ onVolumeCount' = onVolumeCount + 1
            /\ volumeSample' =
                  <<[inBins |-> inBins, outBins |-> outBins,
                     userVol |-> getVolume(inputAnalyser, inBins),
                     aiVol |-> getVolume(outputAnalyser, outBins)]>>
       ELSE UNCHANGED <<onVolumeCount, volumeSample>>
    /\ onDisconnectCount' = onDisconnectCount + 1
    /\ UNCHANGED <<fieldVars, envVars, pcVars, disconnectErrors, flushCount,
                   msgCount, callerDisconnects, discDuringConnect, reconnects,
                   decodeErrors, appVars, playVars, docVars>>
Volume_Tick(inBins, outBins) ==
    /\ tickPending
    /\ tickPending' = FALSE
    /\ IF timerRunning
       THEN /\ onVolumeCount' = onVolumeCount + 1
            /\ volumeSample' =
                  <<[inBins |-> inBins, outBins |-> outBins,
                     userVol |-> getVolume(inputAnalyser, inBins),
                     aiVol |-> getVolume(outputAnalyser, outBins)]>>
       ELSE UNCHANGED <<onVolumeCount, volumeSample>>
    /\ UNCHANGED <<fieldVars, envVars, pcVars, obsVars, appVars, playVars,
                   docVars>>

\* -------------------------------------------------------- audio capture
\* the outbound audio frames submitted so far, sent or not
Frames(log) == SelectSeq(log, LAMBDA x : x # "image")
Sent(log) == SelectSeq(log, LAMBDA x : x = "audio")
Failed(log) == SelectSeq(log, LAMBDA x : x = "audio_failed")

\* onaudioprocess, lines 135-147, with the then-callback on the resolved
\* session promise that runs right after it: one captured buffer is encoded
\* and handed to session.sendRealtimeInput.  ok = FALSE is a send that
\* throws; the exception ends in the promise returned by then() and is
\* handled nowhere.  The node delivers buffers while it is connected and
\* the capture context has not finished closing.
Audio_Process_Aborts(ok) ==
    /\ procNode = "connected"
    /\ inCtxState \in {"open", "closing"}
    /\ LET sent == ok /\ remote = "open"
       IN  /\ IF sent THEN Len(Sent(outbound)) < MaxFrames
              ELSE Len(Failed(outbound)) < MaxSendFailures
           /\ outbound' = Append(outbound,
                             IF sent THEN "audio" ELSE "audio_failed")
           /\ procNode' = IF sent THEN procNode ELSE "disconnected"
    /\ UNCHANGED <<fieldVars, inCtxState, outCtxState, micTracks,
                   srcNode, timerRunning, orphanTimers, remote, mimeType,
                   clock, units,
                   pendingDecodes, pcVars, obsVars, restVars>>
\* a capture node that would keep delivering buffers after its context has
\* closed
Audio_Process_AfterClose(ok) ==
    /\ procNode = "connected"
    /\ LET sent == ok /\ remote = "open"
       IN  /\ IF sent THEN Len(Sent(outbound)) < MaxFrames
              ELSE Len(Failed(outbound)) < MaxSendFailures
           /\ outbound' = Append(outbound,
                             IF sent THEN "audio" ELSE "audio_failed")
    /\ UNCHANGED <<fieldVars, inCtxState, outCtxState, micTracks, procNode,
                   srcNode, timerRunning, orphanTimers, remote, mimeType,
                   clock, units,
                   pendingDecodes, pcVars, obsVars, restVars>>
Audio_Process(ok) ==
    /\ procNode = "connected"
    /\ inCtxState \in {"open", "closing"}
    /\ LET sent == ok /\ remote = "open"
       IN  /\ IF sent THEN Len(Sent(outbound)) < MaxFrames
              ELSE Len(Failed(outbound)) < MaxSendFailures
           /\ outbound' = Append(outbound,
                             IF sent THEN "audio" ELSE "audio_failed")
    /\ UNCHANGED <<fieldVars, inCtxState, outCtxState, micTracks, procNode,
                   srcNode, timerRunning, orphanTimers, remote, mimeType,
                   clock, units,
                   pendingDecodes, pcVars, obsVars, restVars>>

\* --------------------------------------------------------- specification
Next ==
    \/ Connect_Start
    \/ Connect_MicGranted
    \/ Connect_MicDenied
    \/ \E mt \in MimeTypes : Remote_Open(mt)
    \/ \E m \in Messages : Remote_Message(m)
    \/ Decode_Done
    \/ \E i \in DOMAIN units : Source_Ended(i)
    \/ Tick
    \/ Caller_Disconnect
    \/ Remote_Close
    \/ Remote_Error
    \/ Disconnect_InputClosed
    \/ Disconnect_OutputClosed

Spec == Init /\ [][Next]_vars

\* The browser settles every close() promise, so a suspended disconnect is
\* always resumed.
FairSpec ==
    /\ Spec
    /\ WF_vars(Disconnect_InputClosed)
    /\ WF_vars(Disconnect_OutputClosed)

\* the whole client: the steps above together with the volume monitor and
\* the audio capture, with speech segments of one length, sends that fail
\* only when the connection is not open and taps that carry no signal
LiveMessages == {m \in Messages : m.audio <= 1}

LiveNext ==
    \/ Connect_Start
    \/ Connect_MicGranted
    \/ Connect_MicDenied
    \/ \E mt \in MimeTypes : Remote_Open(mt)
    \/ \E m \in LiveMessages : Remote_Message(m)
    \/ Decode_Done
    \/ \E i \in DOMAIN units : Source_Ended(i)
    \/ Tick
    \/ Caller_Disconnect
    \/ Remote_Close
    \/ Remote_Error
    \/ Disconnect_InputClosed
    \/ Disconnect_OutputClosed
    \/ Timer_Fire
    \/ Volume_Tick(Silence, Silence)
    \/ Audio_Process(TRUE)

LiveSpec == Init /\ [][LiveNext]_vars

\* the client without inbound messages: connect, disconnect, the remote
\* connection's open, close and error, the volume monitor (on taps that
\* carry no signal) and the capture
CaptureNext ==
    \/ Connect_Start
    \/ Connect_MicGranted
    \/ Connect_MicDenied
    \/ \E mt \in MimeTypes : Remote_Open(mt)
    \/ Caller_Disconnect
    \/ Remote_Close
    \/ Remote_Error
    \/ Disconnect_InputClosed
    \/ Disconnect_OutputClosed
    \/ Timer_Fire
    \/ Volume_Tick(Silence, Silence)
    \/ \E ok \in BOOLEAN : Audio_Process(ok)

CaptureSpec == Init /\ [][CaptureNext]_vars

\* the volume monitor of a client that is connected, disconnected and
\* connected again, with connections that close or fail before they open
MonitorNext ==
    \/ Connect_Start
    \/ Connect_Again
    \/ Connect_MicGranted
    \/ Connect_MicDenied
    \/ Caller_Disconnect
    \/ Remote_Close
    \/ Remote_Error
    \/ Disconnect_InputClosed
    \/ Disconnect_OutputClosed
    \/ Timer_Fire
    \/ Volume_Tick(Silence, Silence)

MonitorSpec == Init /\ [][MonitorNext]_vars

\* what the timer callback can read from an analyser: a run that is dropped
\* reads nothing
SampledBins == IF timerRunning THEN BinData ELSE {Silence}

\* the volume monitor over the lifetime of a client, with every content of
\* the two analysers' arrays
VolumeNext ==
    \/ Connect_Start
    \/ Caller_Disconnect
    \/ Disconnect_InputClosed
    \/ Disconnect_OutputClosed
    \/ Timer_Fire
    \/ \E inBins, outBins \in SampledBins : Volume_Tick(inBins, outBins)

VolumeSpec == Init /\ [][VolumeNext]_vars

\* the playback scheduler in a session that is connected, interrupted and
\* torn down, with the ended event of stopped units delivered as well
PlaybackNext ==
    \/ Connect_Start
    \/ Connect_MicGranted
    \/ \E mt \in MimeTypes : Remote_Open(mt)
    \/ \E m \in Messages : Remote_Message(m)
    \/ Decode_Done
    \/ \E i \in DOMAIN units : Source_Ended(i)
    \/ \E i \in DOMAIN units : Source_EndedAfterStop(i)
    \/ Tick
    \/ Caller_Disconnect
    \/ Remote_Close
    \/ Disconnect_InputClosed
    \/ Disconnect_OutputClosed

PlaybackSpec == Init /\ [][PlaybackNext]_vars
\* ================================================= the App and its clients
\* App.toggleLiveSession (src/services/geminiService.ts, lines 544-608)
\* creates a new LiveClient for every session it starts.  Each client is
\* kept as a record of the resources it holds and of the position of its
\* connect and disconnect calls; its playback and capture are left out.
\*   press     the button press that created it
\*   awaited   its suspended disconnect was called by toggleLiveSession,
\*             which continues when it returns
\*   failure   the status carried by the error the connection reported
ErrorBusy == "Service busy. Please try again."
ErrorFailed == "Connection failed."

\* messages of the errors getUserMedia rejects with
MicErrors == {"Permission denied"}
\* status reported with a remote error
RemoteFailures == {"503", "other"}

\* toggleLiveSession, line 601: e.message.includes("503")
Includes503(msg) == msg \in {"503 Service Unavailable"}

\* toggleLiveSession, lines 601-605: the text shown for a connect failure
ErrorText(msg) == IF Includes503(msg) THEN ErrorBusy ELSE ErrorFailed

\* LiveClient.connect, lines 28-48, run by toggleLiveSession at line 595:
\* the client as it stands when connect suspends on getUserMedia
NewClient(p) ==
    [press |-> p, pcConnect |-> "awaitMic", pcDisconnect |-> "idle",
     awaited |-> FALSE, inCtx |-> "open", outCtx |-> "open",
     mic |-> "none", timer |-> TRUE, remote |-> "none",
     opened |-> FALSE, failure |-> "none"]

\* a context field is non-null from its creation until close() has resolved
Held(ctx) == ctx \in {"open", "closing"}

\* LiveClient.disconnect, lines 194-220, one call up to its first await:
\* it suspends on a close(), throws because the context it closes is
\* already closing, or runs to the end
DisconnectOutcome(r) ==
    IF Held(r.inCtx)
    THEN IF CloseResolves(r.inCtx) THEN "suspends" ELSE "throws"
    ELSE IF Held(r.outCtx)
         THEN IF CloseResolves(r.outCtx) THEN "suspends" ELSE "throws"
         ELSE "completes"

ClientDisconnect(r) ==
    LET released == [r EXCEPT !.timer = FALSE,
                              !.mic = IF r.mic = "live" THEN "stopped"
                                      ELSE r.mic]
    IN  IF DisconnectOutcome(r) # "suspends" THEN released
        ELSE IF Held(r.inCtx)
             THEN [released EXCEPT !.inCtx = "closing",
                                   !.pcDisconnect = "awaitIn"]
             ELSE [released EXCEPT !.outCtx = "closing",
                                   !.pcDisconnect = "awaitOut"]

\* the onDisconnect callback given to every client, lines 571-576, which is
\* also what toggleLiveSession does after an awaited disconnect (lines
\* 558-562); the new state is rendered later
App_onDisconnect ==
    /\ isMicActive' = FALSE
    /\ liveClientRef' = 0
    /\ UNCHANGED <<renderedIsMicActive, liveError, presses>>

\* toggleLiveSession with isMicActive false, lines 544-595: a client is
\* created, stored in the ref and connected; without an API key the throw of
\* line 568 is caught at once.  State set in the click handler is rendered
\* before the next click is handled.
App_PressStart(keyOk) ==
    /\ ~renderedIsMicActive
    /\ presses < MaxPresses
    /\ keyOk => Len(clients) < MaxClients
    /\ presses' = presses + 1
    /\ IF keyOk
       THEN /\ clients' = Append(clients, NewClient(presses + 1))
            /\ liveClientRef' = Len(clients) + 1
            /\ isMicActive' = TRUE /\ renderedIsMicActive' = TRUE
            /\ liveError' = "null"
       ELSE /\ isMicActive' = FALSE /\ renderedIsMicActive' = FALSE
            /\ liveClientRef' = 0
            /\ liveError' = ErrorText("API Key missing")
            /\ UNCHANGED clients
    /\ UNCHANGED <<fieldVars, envVars, pcVars, obsVars, captureVars,
                   playVars, docVars>>

\* toggleLiveSession with isMicActive true, lines 544-562: disconnect of the
\* client in the ref is called and awaited
App_PressStop ==
    /\ renderedIsMicActive
    /\ presses < MaxPresses
    /\ presses' = presses + 1
    /\ liveError' = "null"
    /\ IF liveClientRef = 0
       THEN /\ isMicActive' = FALSE /\ renderedIsMicActive' = FALSE
            /\ UNCHANGED <<liveClientRef, clients>>
       ELSE LET c == liveClientRef
                out == DisconnectOutcome(clients[c])
            IN  /\ clients' = [clients EXCEPT ![c] =
                       [ClientDisconnect(clients[c]) EXCEPT
                           !.awaited = (clients[c].awaited
                                          \/ out = "suspends")]]
                /\ IF out = "completes"
                   THEN /\ isMicActive' = FALSE /\ liveClientRef' = 0
                        /\ UNCHANGED renderedIsMicActive
                   ELSE UNCHANGED <<isMicActive, renderedIsMicActive,
                                    liveClientRef>>
    /\ UNCHANGED <<fieldVars, envVars, pcVars, obsVars, captureVars,
                   playVars, docVars>>

\* React renders a state update made outside a click handler
App_Render ==
    /\ renderedIsMicActive # isMicActive
    /\ renderedIsMicActive' = isMicActive
    /\ UNCHANGED <<isMicActive, liveClientRef, liveError, presses, clients>>
    /\ UNCHANGED <<fieldVars, envVars, pcVars, obsVars, captureVars,
                   playVars, docVars>>

\* LiveClient.connect of client c, lines 48-102, getUserMedia resolved: the
\* stream is stored and the remote connection started; the awaiting
\* toggleLiveSession returns
App_MicGranted(c) ==
    /\ clients[c].pcConnect = "awaitMic"
    /\ clients' = [clients EXCEPT ![c].pcConnect = "done",
                                  ![c].mic = "live",
                                  ![c].remote = "connecting"]
    /\ UNCHANGED <<isMicActive, renderedIsMicActive, liveClientRef,
                   liveError, presses>>
    /\ UNCHANGED <<fieldVars, envVars, pcVars, obsVars, captureVars,
                   playVars, docVars>>

\* getUserMedia rejected: connect of client c rejects and the catch of
\* toggleLiveSession, lines 597-606, runs
App_MicDenied(c, msg) ==
    /\ clients[c].pcConnect = "awaitMic"
    /\ clients' = [clients EXCEPT ![c].pcConnect = "rejected"]
    /\ isMicActive' = FALSE
    /\ liveClientRef' = 0
    /\ liveError' = ErrorText(msg)
    /\ UNCHANGED <<renderedIsMicActive, presses>>
    /\ UNCHANGED <<fieldVars, envVars, pcVars, obsVars, captureVars,
                   playVars, docVars>>

\* onopen of client c
App_RemoteOpen(c) ==
    /\ clients[c].remote = "connecting"
    /\ clients' = [clients EXCEPT ![c].remote = "open", ![c].opened = TRUE]
    /\ UNCHANGED <<isMicActive, renderedIsMicActive, liveClientRef,
                   liveError, presses>>
    /\ UNCHANGED <<fieldVars, envVars, pcVars, obsVars, captureVars,
                   playVars, docVars>>

\* a call of disconnect made by a callback of client c's connection (lines
\* 91-98), which nobody awaits
App_CallbackDisconnect(c, r) ==
    /\ clients' = [clients EXCEPT ![c] = ClientDisconnect(r)]
    /\ IF DisconnectOutcome(r) = "completes"
       THEN App_onDisconnect
       ELSE UNCHANGED <<isMicActive, renderedIsMicActive, liveClientRef,
                        liveError, presses>>

\* onerror of client c, lines 95-98; f is the status the error carries
App_RemoteError(c, f) ==
    /\ clients[c].remote \in {"connecting", "open"}
    /\ App_CallbackDisconnect(c,
           [clients[c] EXCEPT !.remote = "errored", !.failure = f])
    /\ UNCHANGED <<fieldVars, envVars, pcVars, obsVars, captureVars,
                   playVars, docVars>>

\* onclose of client c, lines 91-94
App_RemoteClose(c) ==
    /\ clients[c].remote \in {"connecting", "open", "errored"}
    /\ App_CallbackDisconnect(c, [clients[c] EXCEPT !.remote = "closed"])
    /\ UNCHANGED <<fieldVars, envVars, pcVars, obsVars, captureVars,
                   playVars, docVars>>

\* LiveClient.disconnect of client c, lines 214-223: inputAudioContext
\* .close() has resolved
App_InputClosed(c) ==
    /\ clients[c].pcDisconnect = "awaitIn"
    /\ LET r == [clients[c] EXCEPT !.inCtx = "closed",
                                   !.pcDisconnect = "idle"]
           out == DisconnectOutcome(r)
       IN  /\ clients' = [clients EXCEPT ![c] =
                  [ClientDisconnect(r) EXCEPT
                      !.awaited = (r.awaited /\ out = "suspends")]]
           /\ IF out = "completes"
              THEN App_onDisconnect
              ELSE UNCHANGED <<isMicActive, renderedIsMicActive,
                               liveClientRef, liveError, presses>>
    /\ UNCHANGED <<fieldVars, envVars, pcVars, obsVars, captureVars,
                   playVars, docVars>>

\* LiveClient.disconnect of client c, lines 218-223: outputAudioContext
\* .close() has resolved, onDisconnect is invoked and the call returns
App_OutputClosed(c) ==
    /\ clients[c].pcDisconnect = "awaitOut"
    /\ clients' = [clients EXCEPT ![c].outCtx = "closed",
                                  ![c].pcDisconnect = "idle",
                                  ![c].awaited = FALSE]
    /\ App_onDisconnect
    /\ UNCHANGED <<fieldVars, envVars, pcVars, obsVars, captureVars,
                   playVars, docVars>>

AppNext ==
    \/ \E keyOk \in BOOLEAN : App_PressStart(keyOk)
    \/ App_PressStop
    \/ App_Render
    \/ \E c \in DOMAIN clients : App_MicGranted(c)
    \/ \E c \in DOMAIN clients, msg \in MicErrors : App_MicDenied(c, msg)
    \/ \E c \in DOMAIN clients : App_RemoteOpen(c)
    \/ \E c \in DOMAIN clients, f \in RemoteFailures : App_RemoteError(c, f)
    \/ \E c \in DOMAIN clients : App_RemoteClose(c)
    \/ \E c \in DOMAIN clients : App_InputClosed(c)
    \/ \E c \in DOMAIN clients : App_OutputClosed(c)

AppSpec == Init /\ [][AppNext]_vars

\* ============================================ the App's document pipeline
\* The App component (src/services/geminiService.ts, lines 221-631) takes
\* pages from the camera or from uploaded files, has them analysed, and shows
\* a comic with a spoken narration.  As above every action is one
\* run-to-completion block: a handler up to its first await, or the
\* continuation of an await.  Updates made in a click or change handler are
\* rendered before the next event is handled; updates made in a
\* continuation are rendered by a later task (Doc_Render), so a handler can
\* read a state that is one or more continuations old.
\*
\* The toggleLiveSession actions above take the document as processed and on
\* screen (the test of line 545 passes) and no narration as playing (lines
\* 549-553 find currentAudioSource empty); they leave the variables of this
\* part alone.

\* a data URL and the part of it after the comma (lines 333-334, 404-405)
DataUrl(mime, data) == [mimeType |-> mime, base64 |-> data]
AfterComma(url) == url.base64

\* the files a user can select: two images and a PDF document
ImageA == [data |-> "A", type |-> "image/jpeg"]
ImageB == [data |-> "B", type |-> "image/png"]
PdfFile == [data |-> "P", type |-> "application/pdf"]

\* FileReader.readAsDataURL and onloadend, lines 403-408: the page made of
\* one file
PageOfFile(f) ==
    [base64 |-> AfterComma(DataUrl(f.type, f.data)), mimeType |-> f.type]

\* capturePage, lines 327-337: the page made of the current video frame
CameraPage ==
    [base64 |-> AfterComma(DataUrl("image/jpeg", "frame")),
     mimeType |-> "image/jpeg"]

\* handleFileUpload, line 377
HasPdf(files) == \E i \in DOMAIN files : files[i].type = "application/pdf"

\* handleFileUpload, lines 379-391: the alert that refuses the selection, or
\* "null" when it is accepted; shown is the page list of the render the
\* handler belongs to
UploadRefusal(files, shown) ==
    IF HasPdf(files)
    THEN IF Len(files) > 1 THEN "pdf" ELSE "null"
    ELSE IF Len(shown) + Len(files) > MAX_PAGES THEN "count" ELSE "null"

\* handleFileUpload, lines 400-412: the readers finish in any order, and
\* newPages holds one page for every file in the order they finished
RECURSIVE Orders(_)
Orders(S) ==
    IF S = {} THEN {<< >>}
    ELSE UNION {{Append(o, i) : o \in Orders(S \ {i})} : i \in S}
ReadOrders(files) == Orders(DOMAIN files)
NewPages(files, o) == [j \in DOMAIN files |-> PageOfFile(files[o[j]])]

\* handleFileUpload, lines 417-422: a PDF replaces the pages, images are
\* appended to the pages of the render the handler belongs to
FinalPages(files, base, new) == IF HasPdf(files) THEN new ELSE base \o new

\* removePage, line 355: prev.filter((_, i) => i !== index), with the
\* positions counted from 1
RemoveAt(prev, idx) ==
    [j \in 1..(Len(prev) - (IF idx \in DOMAIN prev THEN 1 ELSE 0)) |->
        IF j < idx THEN prev[j] ELSE prev[j + 1]]

\* processDocument, lines 492-494: the first page as a data URL
FallbackImage_LastPage(pages) ==
    DataUrl(pages[Len(pages)].mimeType, pages[Len(pages)].base64)
FallbackImage(pages) == DataUrl(pages[1].mimeType, pages[1].base64)

\* generateComicStrip (lines 63-100 of the service part of the file): the
\* URL of the generated strip
ComicImage == DataUrl("image/png", "comic")

\* messages of the errors the three service calls reject with (lines 8, 60,
\* 100, 123 of the service part, and an error reported by the remote API)
KeyNotFound == "API Key not found. Please select a key."
KeyInvalid == "API key not valid. Please pass a valid API key."
AnalysisErrors == {KeyNotFound, KeyInvalid, "No analysis returned"}
NarrationErrors == {"No audio generated"}
DecodeErrors == {"Unable to decode audio data"}

\* processDocument, lines 537-538: errStr.includes("API key") ||
\* errStr.includes("400"); the test is case-sensitive
IsApiErrorText(msg) == msg \in {KeyInvalid}

\* playAudio lines 433-440, processDocument lines 479-482, resetApp lines
\* 616-619: stop() on the source in the ref; stop() of a source that has
\* ended changes nothing
StopCurrent(srcs, cur) ==
    [i \in DOMAIN srcs |->
        IF i = cur /\ srcs[i].status = "playing"
        THEN [srcs[i] EXCEPT !.status = "stopped"]
        ELSE srcs[i]]

\* what a render shows
View ==
    [appState |-> appState, capturedPages |-> capturedPages,
     limitAlert |-> limitAlert, isApiError |-> isApiError,
     showWebcam |-> showWebcam, isHelpPlaying |-> isHelpPlaying,
     analysis |-> analysis, comicUrl |-> comicUrl]

\* the render that follows a click or change handler
Flush == rendered' = View' /\ unshown' = {}

\* the screens of the main route switch, lines 966-971, and of renderLanding,
\* line 669
LandingShown == rendered.appState = "LANDING" /\ ~rendered.showWebcam
WebcamShown == rendered.appState = "LANDING" /\ rendered.showWebcam
\* renderStory, line 915, shows nothing without an analysis and a comic
StoryShown ==
    /\ rendered.appState = "READY"
    /\ rendered.analysis # 0 /\ rendered.comicUrl # << >>
ErrorShown == rendered.appState = "ERROR"

\* the variables of the live session part
liveVars == <<fieldVars, envVars, pcVars, obsVars, captureVars, playVars>>

\* calls of processDocument that can still be made within MaxRuns: those
\* made and those an accepted upload will make
RunsLeft ==
    MaxRuns - Len(runs)
      - Cardinality({u \in DOMAIN uploads :
                        uploads[u].pc \in {"awaitKey", "reading"}})

\* triggerLimitAlert, lines 314-317
triggerLimitAlert(type) ==
    /\ limitAlert' = type
    /\ alertTimers' = alertTimers + 1

\* processDocument, lines 474-486, up to the await of analyzeDocument
processDocument(pages) ==
    /\ isApiError' = FALSE
    /\ audioSources' = StopCurrent(audioSources, currentAudioSource)
    /\ currentAudioSource' = 0
    /\ appState' = "ANALYZING"
    /\ runs' = Append(runs, [pages |-> pages, pc |-> "awaitAnalysis",
                             comic |-> "none", timer |-> "none",
                             audio |-> "none", error |-> "none",
                             failedAt |-> "none"])

\* playAudio, lines 429-446, up to its first await; caller is the run of
\* processDocument that called it, or 0 for playHelpAudio.  The App's
\* AudioContext is created by the mount effect (lines 256-258), so the test
\* of line 430 passes.
playAudio(caller) ==
    /\ audioSources' = StopCurrent(audioSources, currentAudioSource)
    /\ currentAudioSource' = 0
    /\ plays' = Append(plays,
                   [caller |-> caller,
                    pc |-> IF audioCtxState = "suspended" THEN "awaitResume"
                           ELSE "awaitDecode"])
\* resetApp, lines 610-631: disconnect of the client in the ref is called
\* and not awaited, the ref is cleared, the narration stopped, the UI made
\* inactive and the document forgotten.  When that disconnect runs to its
\* end at once, its onDisconnect callback writes the same values.
resetApp ==
    /\ clients' = IF liveClientRef = 0 THEN clients
                  ELSE [clients EXCEPT ![liveClientRef] =
                           ClientDisconnect(clients[liveClientRef])]
    /\ liveClientRef' = 0
    /\ audioSources' = StopCurrent(audioSources, currentAudioSource)
    /\ currentAudioSource' = 0
    /\ isMicActive' = FALSE
    /\ appState' = "LANDING"
    /\ capturedPages' = << >>
    /\ analysis' = 0
    /\ comicUrl' = << >>
    /\ isApiError' = FALSE
    /\ showWebcam' = FALSE
    /\ liveError' = "null"

\* resetApp as the click handler of a button (lines 925 and 975), with the
\* render that follows it
ResetClick ==
    /\ resetApp
    /\ renderedIsMicActive' = FALSE
    /\ UNCHANGED <<limitAlert, isHelpPlaying, audioCtxState, taskVars,
                   countVars>>
    /\ Flush
    /\ UNCHANGED liveVars

\* a press of such a button while the live session is followed
App_Reset ==
    /\ presses < MaxPresses
    /\ presses' = presses + 1
    /\ ResetClick

\* the App with its reset button
AppResetNext ==
    \/ \E keyOk \in BOOLEAN : App_PressStart(keyOk)
    \/ App_PressStop
    \/ App_Reset
    \/ App_Render
    \/ \E c \in DOMAIN clients : App_MicGranted(c)
    \/ \E c \in DOMAIN clients, msg \in MicErrors : App_MicDenied(c, msg)
    \/ \E c \in DOMAIN clients : App_RemoteOpen(c)
    \/ \E c \in DOMAIN clients, f \in RemoteFailures : App_RemoteError(c, f)
    \/ \E c \in DOMAIN clients : App_RemoteClose(c)
    \/ \E c \in DOMAIN clients : App_InputClosed(c)
    \/ \E c \in DOMAIN clients : App_OutputClosed(c)

AppResetSpec == Init /\ [][AppResetNext]_vars

\* ------------------------------------------------- capturing the pages
\* capturePage, lines 319-340, the click handler of the shutter button of
\* the camera screen: the page count it tests is the one of its render, the
\* page is appended to the current list
capturePage_NoLimit ==
    /\ WebcamShown
    /\ alertTimers < MaxAlerts
    /\ shutter' = ~shutter
    /\ capturedPages' = Append(capturedPages, CameraPage)
    /\ UNCHANGED <<limitAlert, alertTimers>>
    /\ UNCHANGED <<appState, analysis, comicUrl, isApiError, showWebcam,
                   isHelpPlaying, audioVars, uploads, runs, plays, helpPc,
                   cameraPending, keyResetPending, helpCalls>>
    /\ Flush
    /\ UNCHANGED <<liveVars, appVars>>

capturePage ==
    /\ WebcamShown
    /\ alertTimers < MaxAlerts
    /\ shutter' = ~shutter
    /\ IF Len(rendered.capturedPages) >= MAX_PAGES
       THEN /\ triggerLimitAlert("count")
            /\ UNCHANGED capturedPages
       ELSE /\ capturedPages' = Append(capturedPages, CameraPage)
            /\ UNCHANGED <<limitAlert, alertTimers>>
    /\ UNCHANGED <<appState, analysis, comicUrl, isApiError, showWebcam,
                   isHelpPlaying, audioVars, uploads, runs, plays, helpPc,
                   cameraPending, keyResetPending, helpCalls>>
    /\ Flush
    /\ UNCHANGED <<liveVars, appVars>>

\* removePage, lines 354-356, the click handler of the button on the
\* thumbnail at position idx
removePage(idx) ==
    /\ WebcamShown
    /\ idx \in DOMAIN rendered.capturedPages
    /\ capturedPages' = RemoveAt(capturedPages, idx)
    /\ UNCHANGED <<appState, limitAlert, analysis, comicUrl, isApiError,
                   showWebcam, isHelpPlaying, audioVars, taskVars,
                   countVars>>
    /\ Flush
    /\ UNCHANGED <<liveVars, appVars>>

\* finishCapture, lines 342-347, the click handler of the checkmark, which
\* is on screen when the render has a page (line 783): processDocument is
\* called with the pages of the render
finishCapture ==
    /\ WebcamShown
    /\ Len(rendered.capturedPages) > 0
    /\ RunsLeft > 0
    /\ showWebcam' = FALSE
    /\ processDocument(rendered.capturedPages)
    /\ UNCHANGED <<capturedPages, limitAlert, analysis, comicUrl,
                   isHelpPlaying, audioCtxState, uploads, plays, helpPc,
                   cameraPending, keyResetPending, alertTimers, countVars>>
    /\ Flush
    /\ UNCHANGED <<liveVars, appVars>>

\* cancelWebcam, lines 349-352
cancelWebcam ==
    /\ WebcamShown
    /\ showWebcam' = FALSE
    /\ capturedPages' = << >>
    /\ UNCHANGED <<appState, limitAlert, analysis, comicUrl, isApiError,
                   isHelpPlaying, audioVars, taskVars, countVars>>
    /\ Flush
    /\ UNCHANGED <<liveVars, appVars>>

\* the click handler of the camera button, line 859: handleApiKeySelection
\* is called and the rest waits for it
Camera_Press ==
    /\ LandingShown
    /\ cameraPending < MaxKeyWaits
    /\ cameraPending' = cameraPending + 1
    /\ UNCHANGED <<docState, audioVars, viewVars, uploads, runs, plays,
                   helpPc, keyResetPending, alertTimers, countVars>>
    /\ UNCHANGED <<liveVars, appVars>>

\* lines 860-863: the key selection has returned, the pages are cleared and
\* the camera screen is asked for
Camera_KeySelected ==
    /\ cameraPending > 0
    /\ cameraPending' = cameraPending - 1
    /\ capturedPages' = << >>
    /\ showWebcam' = TRUE
    /\ UNCHANGED <<appState, limitAlert, analysis, comicUrl, isApiError,
                   isHelpPlaying, audioVars, viewVars, uploads, runs, plays,
                   helpPc, keyResetPending, alertTimers, countVars>>
    /\ UNCHANGED <<liveVars, appVars>>

\* handleFileUpload, lines 372-393, the change handler of the file input of
\* the landing screen, up to the await of handleApiKeySelection.  Every call
\* is kept in uploads: the files, the pages of the render the handler
\* belongs to (base), and how far the call has come; what a call that has
\* ended no longer reads is dropped.
handleFileUpload(files) ==
    /\ LandingShown
    /\ Len(uploads) < MaxUploads
    /\ RunsLeft > 0
    /\ alertTimers < MaxAlerts
    /\ LET refusal == UploadRefusal(files, rendered.capturedPages)
       IN  /\ uploads' = Append(uploads,
                  IF refusal = "null"
                  THEN [files |-> files, base |-> rendered.capturedPages,
                        pc |-> "awaitKey"]
                  ELSE [files |-> files, base |-> << >>, pc |-> "refused"])
           /\ IF refusal = "null" THEN UNCHANGED <<limitAlert, alertTimers>>
              ELSE triggerLimitAlert(refusal)
    /\ UNCHANGED <<appState, capturedPages, analysis, comicUrl, isApiError,
                   showWebcam, isHelpPlaying, audioVars, runs, plays, helpPc,
                   cameraPending, keyResetPending, countVars>>
    /\ Flush
    /\ UNCHANGED <<liveVars, appVars>>

\* handleFileUpload, lines 393-414: the key selection has returned, the
\* loading screen is asked for and the files are given to their readers.
\* The render of that screen is a task queued before the reads begin, so it
\* has run when they end: until then the call is in unshown.
HandleFileUpload_KeySelected(u) ==
    /\ uploads[u].pc = "awaitKey"
    /\ uploads' = [uploads EXCEPT ![u].pc = "reading"]
    /\ appState' = "CAPTURING"
    /\ unshown' = unshown \cup {u}
    /\ UNCHANGED <<capturedPages, limitAlert, analysis, comicUrl, isApiError,
                   showWebcam, isHelpPlaying, audioVars, rendered, runs,
                   plays, helpPc, cameraPending, keyResetPending,
                   alertTimers, countVars>>
    /\ UNCHANGED <<liveVars, appVars>>

\* handleFileUpload, lines 414-425: every reader has finished, in some
\* order o; the page list is replaced and processDocument called
HandleFileUpload_FilesRead(u) ==
    /\ uploads[u].pc = "reading"
    /\ u \notin unshown
    /\ \E o \in ReadOrders(uploads[u].files) :
          LET finalPages == FinalPages(uploads[u].files, uploads[u].base,
                                       NewPages(uploads[u].files, o))
          IN  /\ capturedPages' = finalPages
              /\ processDocument(finalPages)
    /\ uploads' = [uploads EXCEPT ![u] = [files |-> << >>, base |-> << >>,
                                          pc |-> "done"]]
    /\ UNCHANGED <<limitAlert, analysis, comicUrl, showWebcam,
                   isHelpPlaying, audioCtxState, viewVars, plays, helpPc,
                   cameraPending, keyResetPending, alertTimers, countVars>>
    /\ UNCHANGED <<liveVars, appVars>>

\* the timeout of triggerLimitAlert, line 316
Alert_Timeout ==
    /\ alertTimers > 0
    /\ alertTimers' = alertTimers - 1
    /\ limitAlert' = "null"
    /\ UNCHANGED <<appState, capturedPages, analysis, comicUrl, isApiError,
                   showWebcam, isHelpPlaying, audioVars, viewVars, uploads,
                   runs, plays, helpPc, cameraPending, keyResetPending,
                   countVars>>
    /\ UNCHANGED <<liveVars, appVars>>

\* a click on the alert, line 641
Alert_Dismiss ==
    /\ rendered.appState = "LANDING"
    /\ rendered.limitAlert # "null"
    /\ limitAlert' = "null"
    /\ UNCHANGED <<appState, capturedPages, analysis, comicUrl, isApiError,
                   showWebcam, isHelpPlaying, audioVars, taskVars,
                   countVars>>
    /\ Flush
    /\ UNCHANGED <<liveVars, appVars>>

\* React renders the updates made by continuations
Doc_Render ==
    /\ rendered # View \/ unshown # {}
    /\ rendered' = View
    /\ unshown' = {}
    /\ UNCHANGED <<docState, audioVars, taskVars, countVars>>
    /\ UNCHANGED <<liveVars, appVars>>

\* ------------------------------------------------------ processDocument
\* One call of processDocument is a record of runs:
\*   pages     its argument
\*   pc        the await it is suspended on, "done" or "failed"
\*   comic     the state of generationPromise, timer that of the 45 s timeout
\*   audio     the state of audioPromise, error the message it rejected with
\*   failedAt  the step whose failure the catch of line 534 received
\* The pages of a call that has ended are read by nobody and dropped.

\* processDocument, lines 530-532: READY is set and playAudio called
RunReady(r, rec) ==
    /\ appState' = "READY"
    /\ runs' = [runs EXCEPT ![r] = [rec EXCEPT !.pc = "awaitPlay"]]
    /\ playAudio(r)
    /\ UNCHANGED isApiError

\* processDocument, lines 534-541: the catch
RunCatch(r, rec, msg, step) ==
    /\ appState' = "ERROR"
    /\ isApiError' = (isApiError \/ IsApiErrorText(msg))
    /\ runs' = [runs EXCEPT ![r] = [rec EXCEPT !.pc = "failed",
                                                !.failedAt = step,
                                                !.pages = << >>]]

\* processDocument, lines 524-532: the race of line 521 has settled with
\* url; the comic is set and audioPromise awaited, which continues at once
\* when the promise is settled already
AfterComic(r, rec, url) ==
    /\ comicUrl' = <<url>>
    /\ CASE rec.audio = "resolved" -> RunReady(r, rec)
         [] rec.audio = "rejected" ->
                /\ RunCatch(r, rec, rec.error, "narration")
                /\ UNCHANGED <<audioSources, currentAudioSource, plays>>
         [] OTHER ->
                /\ runs' = [runs EXCEPT ![r] = [rec EXCEPT !.pc = "awaitAudio"]]
                /\ UNCHANGED <<appState, isApiError, audioSources,
                               currentAudioSource, plays>>

\* what no step of processDocument after its first await writes
RunLeaves ==
    /\ UNCHANGED <<capturedPages, limitAlert, showWebcam, isHelpPlaying,
                   audioCtxState, viewVars, uploads, helpPc, cameraPending,
                   keyResetPending, alertTimers, countVars>>
    /\ UNCHANGED <<liveVars, appVars>>

\* lines 486-524: analyzeDocument has resolved; the analysis is set, the
\* narration and the comic are requested and the timeout is started
ProcessDocument_Analyzed(r) ==
    /\ runs[r].pc = "awaitAnalysis"
    /\ analysis' = r
    /\ appState' = "GENERATING_ART"
    /\ runs' = [runs EXCEPT ![r].pc = "awaitComic", ![r].comic = "pending",
                            ![r].timer = "armed", ![r].audio = "pending"]
    /\ UNCHANGED <<comicUrl, isApiError, currentAudioSource, audioSources,
                   plays>>
    /\ RunLeaves

\* line 486: analyzeDocument has rejected
ProcessDocument_AnalysisFailed(r, msg) ==
    /\ runs[r].pc = "awaitAnalysis"
    /\ RunCatch(r, runs[r], msg, "analysis")
    /\ UNCHANGED <<analysis, comicUrl, currentAudioSource, audioSources,
                   plays>>
    /\ RunLeaves

\* lines 510-514: generateComicStrip has resolved; the timeout is cancelled
\* and, unless the timeout has won the race, the strip is the comic
ProcessDocument_ComicDrawn(r) ==
    /\ runs[r].comic = "pending"
    /\ LET rec == [runs[r] EXCEPT !.comic = "resolved",
                                  !.timer = IF @ = "armed" THEN "cleared"
                                            ELSE @]
       IN  IF runs[r].pc = "awaitComic"
           THEN AfterComic(r, rec, ComicImage)
           ELSE /\ runs' = [runs EXCEPT ![r] = rec]
                /\ UNCHANGED <<appState, comicUrl, isApiError,
                               currentAudioSource, audioSources, plays>>
    /\ UNCHANGED analysis
    /\ RunLeaves

\* lines 515-519: generateComicStrip has rejected; the timeout is cancelled
\* and the first page stands in for the comic
ProcessDocument_ComicFailed(r) ==
    /\ runs[r].comic = "pending"
    /\ LET rec == [runs[r] EXCEPT !.comic = "rejected",
                                  !.timer = IF @ = "armed" THEN "cleared"
                                            ELSE @]
       IN  IF runs[r].pc = "awaitComic"
           THEN AfterComic(r, rec, FallbackImage(runs[r].pages))
           ELSE /\ runs' = [runs EXCEPT ![r] = rec]
                /\ UNCHANGED <<appState, comicUrl, isApiError,
                               currentAudioSource, audioSources, plays>>
    /\ UNCHANGED analysis
    /\ RunLeaves

\* lines 503-508: the timeout has fired before generateComicStrip settled
ProcessDocument_ComicTimeout(r) ==
    /\ runs[r].timer = "armed"
    /\ AfterComic(r, [runs[r] EXCEPT !.timer = "fired"],
                  FallbackImage(runs[r].pages))
    /\ UNCHANGED analysis
    /\ RunLeaves

\* lines 497 and 528-532: generateNarration has resolved
ProcessDocument_Narrated(r) ==
    /\ runs[r].audio = "pending"
    /\ LET rec == [runs[r] EXCEPT !.audio = "resolved"]
       IN  IF runs[r].pc = "awaitAudio"
           THEN RunReady(r, rec)
           ELSE /\ runs' = [runs EXCEPT ![r] = rec]
                /\ UNCHANGED <<appState, isApiError, currentAudioSource,
                               audioSources, plays>>
    /\ UNCHANGED <<analysis, comicUrl>>
    /\ RunLeaves

\* lines 497 and 528: generateNarration has rejected
ProcessDocument_NarrationFailed(r, msg) ==
    /\ runs[r].audio = "pending"
    /\ LET rec == [runs[r] EXCEPT !.audio = "rejected", !.error = msg]
       IN  IF runs[r].pc = "awaitAudio"
           THEN RunCatch(r, rec, msg, "narration")
           ELSE /\ runs' = [runs EXCEPT ![r] = rec]
                /\ UNCHANGED <<appState, isApiError>>
    /\ UNCHANGED <<analysis, comicUrl, currentAudioSource, audioSources,
                   plays>>
    /\ RunLeaves

\* ------------------------------------------------------------ playAudio
\* AudioUtils.playAudioBuffer (not part of src/): the source it returns has
\* been started
PlayAudioBuffer == [status |-> "playing"]

\* what no continuation of playAudio writes
PlayLeaves ==
    /\ UNCHANGED <<capturedPages, limitAlert, analysis, comicUrl, showWebcam,
                   viewVars, uploads, cameraPending, keyResetPending,
                   alertTimers, countVars>>
    /\ UNCHANGED <<liveVars, appVars>>

\* playAudio, lines 442-446: audioContext.resume() has resolved
PlayAudio_Resumed(p) ==
    /\ plays[p].pc = "awaitResume"
    /\ audioCtxState' = "running"
    /\ plays' = [plays EXCEPT ![p].pc = "awaitDecode"]
    /\ UNCHANGED <<appState, isApiError, isHelpPlaying, currentAudioSource,
                   audioSources, runs, helpPc>>
    /\ PlayLeaves

\* playAudio, lines 446-455: the buffer is decoded, a source is started and
\* stored in the ref.  The call returns to processDocument, which ends, or
\* to playHelpAudio, whose finally block (lines 469-471) runs.
PlayAudio_Decoded(p) ==
    /\ plays[p].pc = "awaitDecode"
    /\ audioSources' = Append(audioSources, PlayAudioBuffer)
    /\ currentAudioSource' = Len(audioSources) + 1
    /\ plays' = [plays EXCEPT ![p].pc = "done"]
    /\ IF plays[p].caller = 0
       THEN /\ isHelpPlaying' = FALSE /\ helpPc' = "idle"
            /\ UNCHANGED runs
       ELSE /\ runs' = [runs EXCEPT ![plays[p].caller].pc = "done",
                                    ![plays[p].caller].pages = << >>]
            /\ UNCHANGED <<isHelpPlaying, helpPc>>
    /\ UNCHANGED <<appState, isApiError, audioCtxState>>
    /\ PlayLeaves

\* playAudio, line 446: decodeAudioData has thrown.  playAudio rejects: the
\* catch of processDocument (lines 534-541) or the catch and finally of
\* playHelpAudio (lines 467-471) run.
PlayAudio_DecodeFailed(p, msg) ==
    /\ plays[p].pc = "awaitDecode"
    /\ plays' = [plays EXCEPT ![p].pc = "failed"]
    /\ IF plays[p].caller = 0
       THEN /\ isHelpPlaying' = FALSE /\ helpPc' = "idle"
            /\ UNCHANGED <<appState, isApiError, runs>>
       ELSE /\ RunCatch(plays[p].caller, runs[plays[p].caller], msg,
                        "playback")
            /\ UNCHANGED <<isHelpPlaying, helpPc>>
    /\ UNCHANGED <<audioCtxState, currentAudioSource, audioSources>>
    /\ PlayLeaves

\* source.onended, lines 451-455, of a source that has played to its end.
\* For a source that was stopped the handler finds another source or none
\* in the ref and changes nothing.
NarrationSource_Ended(i) ==
    /\ audioSources[i].status = "playing"
    /\ audioSources' = [audioSources EXCEPT ![i].status = "ended"]
    /\ currentAudioSource' = IF currentAudioSource = i THEN 0
                             ELSE currentAudioSource
    /\ UNCHANGED <<appState, isApiError, isHelpPlaying, audioCtxState, runs,
                   plays, helpPc>>
    /\ PlayLeaves

\* playHelpAudio, lines 458-465, the click handler of the help button of the
\* landing screen, which is disabled while isHelpPlaying is rendered.  The
\* two awaits of lines 463 and 465 follow each other with no write between
\* them and are taken as one.
playHelpAudio ==
    /\ LandingShown
    /\ ~rendered.isHelpPlaying
    /\ helpCalls < MaxHelpCalls
    /\ helpCalls' = helpCalls + 1
    /\ isHelpPlaying' = TRUE
    /\ helpPc' = "awaitNarration"
    /\ UNCHANGED <<appState, capturedPages, limitAlert, analysis, comicUrl,
                   isApiError, showWebcam, audioVars, uploads, runs, plays,
                   cameraPending, keyResetPending, alertTimers,
                   shutter>>
    /\ Flush
    /\ UNCHANGED <<liveVars, appVars>>

\* playHelpAudio, lines 465-466: generateNarration has resolved
PlayHelpAudio_Narrated ==
    /\ helpPc = "awaitNarration"
    /\ helpPc' = "awaitPlay"
    /\ playAudio(0)
    /\ UNCHANGED <<appState, isApiError, isHelpPlaying, audioCtxState, runs>>
    /\ PlayLeaves

\* playHelpAudio, lines 465-471: generateNarration has rejected
PlayHelpAudio_NarrationFailed ==
    /\ helpPc = "awaitNarration"
    /\ helpPc' = "idle"
    /\ isHelpPlaying' = FALSE
    /\ UNCHANGED <<appState, isApiError, audioVars, runs, plays>>
    /\ PlayLeaves

\* ---------------------------------------------------------------- reset
\* a press of the reset button of the story (line 925) or of the error
\* screen (line 975)
Reset_Press ==
    /\ StoryShown \/ ErrorShown
    /\ ResetClick
    /\ UNCHANGED presses

\* the click handler of the key button of the error screen, lines 977-981,
\* which is shown with isApiError: handleApiKeySelection(true) is called and
\* resetApp waits for it
KeyReset_Press ==
    /\ ErrorShown
    /\ rendered.isApiError
    /\ keyResetPending < MaxKeyWaits
    /\ keyResetPending' = keyResetPending + 1
    /\ UNCHANGED <<docState, audioVars, viewVars, uploads, runs, plays,
                   helpPc, cameraPending, alertTimers, countVars>>
    /\ UNCHANGED <<liveVars, appVars>>

\* line 980: the key selection has returned and resetApp runs
KeyReset_KeySelected ==
    /\ keyResetPending > 0
    /\ keyResetPending' = keyResetPending - 1
    /\ resetApp
    /\ UNCHANGED <<limitAlert, isHelpPlaying, audioCtxState, viewVars,
                   uploads, runs, plays, helpPc, cameraPending, alertTimers,
                   countVars>>
    /\ UNCHANGED <<renderedIsMicActive, presses>>
    /\ UNCHANGED liveVars
\* ------------------------------------------- the document pipeline alone
\* the selections uploaded in PipelineSpec
PipelineFiles == {<<ImageA, ImageB>>, <<PdfFile>>}

\* uploads, processDocument with every outcome of its three service calls
\* and of the playback, and the two ways of resetting the App
PipelineNext ==
    \/ \E files \in PipelineFiles : handleFileUpload(files)
    \/ \E u \in DOMAIN uploads : HandleFileUpload_KeySelected(u)
    \/ \E u \in DOMAIN uploads : HandleFileUpload_FilesRead(u)
    \/ \E r \in DOMAIN runs : ProcessDocument_Analyzed(r)
    \/ \E r \in DOMAIN runs, msg \in AnalysisErrors :
          ProcessDocument_AnalysisFailed(r, msg)
    \/ \E r \in DOMAIN runs : ProcessDocument_ComicDrawn(r)
    \/ \E r \in DOMAIN runs : ProcessDocument_ComicFailed(r)
    \/ \E r \in DOMAIN runs : ProcessDocument_ComicTimeout(r)
    \/ \E r \in DOMAIN runs : ProcessDocument_Narrated(r)
    \/ \E r \in DOMAIN runs, msg \in NarrationErrors :
          ProcessDocument_NarrationFailed(r, msg)
    \/ \E p \in DOMAIN plays : PlayAudio_Resumed(p)
    \/ \E p \in DOMAIN plays : PlayAudio_Decoded(p)
    \/ \E p \in DOMAIN plays, msg \in DecodeErrors :
          PlayAudio_DecodeFailed(p, msg)
    \/ Reset_Press
    \/ KeyReset_Press
    \/ KeyReset_KeySelected
    \/ Doc_Render

PipelineSpec == Init /\ [][PipelineNext]_vars

\* --------------------------------------------------- the narration alone
\* the help narration next to the narration of one uploaded image, with
\* every service call of processDocument succeeding
NarrationNext ==
    \/ playHelpAudio
    \/ PlayHelpAudio_Narrated
    \/ PlayHelpAudio_NarrationFailed
    \/ handleFileUpload(<<ImageA>>)
    \/ \E u \in DOMAIN uploads : HandleFileUpload_KeySelected(u)
    \/ \E u \in DOMAIN uploads : HandleFileUpload_FilesRead(u)
    \/ \E r \in DOMAIN runs : ProcessDocument_Analyzed(r)
    \/ \E r \in DOMAIN runs : ProcessDocument_ComicDrawn(r)
    \/ \E r \in DOMAIN runs : ProcessDocument_Narrated(r)
    \/ \E p \in DOMAIN plays : PlayAudio_Resumed(p)
    \/ \E p \in DOMAIN plays : PlayAudio_Decoded(p)
    \/ \E p \in DOMAIN plays, msg \in DecodeErrors :
          PlayAudio_DecodeFailed(p, msg)
    \/ \E i \in DOMAIN audioSources : NarrationSource_Ended(i)
    \/ Reset_Press
    \/ Doc_Render

NarrationSpec == Init /\ [][NarrationNext]_vars

\* ------------------------------------------------- the page list alone
\* the selections uploaded in PagesSpec: two images, one image more than
\* the limit allows, a PDF, and a PDF together with an image
PagesFiles ==
    {[i \in 1..n |-> ImageA] : n \in {2, MAX_PAGES + 1}}
      \cup {<<PdfFile>>, <<ImageB, PdfFile>>}

\* the camera screen and uploads; every document is refused by the analysis,
\* after which the App is reset and pages are taken again
PagesNext ==
    \/ Camera_Press
    \/ Camera_KeySelected
    \/ capturePage
    \/ \E idx \in 1..MAX_PAGES : removePage(idx)
    \/ finishCapture
    \/ cancelWebcam
    \/ \E files \in PagesFiles : handleFileUpload(files)
    \/ \E u \in DOMAIN uploads : HandleFileUpload_KeySelected(u)
    \/ \E u \in DOMAIN uploads : HandleFileUpload_FilesRead(u)
    \/ \E r \in DOMAIN runs :
          ProcessDocument_AnalysisFailed(r, "No analysis returned")
    \/ Reset_Press
    \/ Alert_Timeout
    \/ Alert_Dismiss
    \/ Doc_Render

PagesSpec == Init /\ [][PagesNext]_vars

\* the values of the variables of the document pipeline
DocTypeOK ==
    /\ appState \in {"LANDING", "CAPTURING", "ANALYZING", "GENERATING_ART",
                     "READY", "ERROR"}
    /\ limitAlert \in {"null", "count", "pdf"}
    /\ analysis \in 0..Len(runs)
    /\ Len(comicUrl) <= 1
    /\ currentAudioSource \in 0..Len(audioSources)
    /\ \A i \in DOMAIN audioSources :
          audioSources[i].status \in {"playing", "stopped", "ended"}
    /\ \A r \in DOMAIN runs :
          /\ runs[r].pc \in {"awaitAnalysis", "awaitComic", "awaitAudio",
                             "awaitPlay", "done", "failed"}
          /\ runs[r].pc \notin {"done", "failed"} => Len(runs[r].pages) > 0
          /\ runs[r].timer = "armed" => runs[r].pc = "awaitComic"
    /\ \A u \in DOMAIN uploads :
          uploads[u].pc \in {"refused", "awaitKey", "reading", "done"}
    /\ Len(runs) <= MaxRuns
    /\ helpPc \in {"idle", "awaitNarration", "awaitPlay"}
    /\ isHelpPlaying = (helpPc # "idle")
AppTypeOK ==
    /\ liveClientRef \in 0..Len(clients)
    /\ liveError \in {"null", ErrorBusy, ErrorFailed}
    /\ presses \in 0..MaxPresses
    /\ Len(clients) <= MaxClients
    /\ \A c \in DOMAIN clients :
          /\ clients[c].pcConnect \in {"awaitMic", "done", "rejected"}
          /\ clients[c].pcDisconnect \in {"idle", "awaitIn", "awaitOut"}
          /\ clients[c].pcDisconnect = "awaitIn" => clients[c].inCtx = "closing"
          /\ clients[c].pcDisconnect = "awaitOut" =>
                clients[c].outCtx = "closing"
          /\ clients[c].awaited => clients[c].pcDisconnect # "idle"

TypeOK ==
    /\ inCtxState \in CtxStates /\ outCtxState \in CtxStates
    /\ pcConnect \in {"idle", "awaitMic", "done", "rejected"}
    /\ pcDisconnect \in {"idle", "awaitIn", "awaitOut"}
    /\ pcDisconnect = "awaitIn" =>
          inCtxState = "closing" /\ inputAudioContext # "null"
    /\ pcDisconnect = "awaitOut" =>
          outCtxState = "closing" /\ outputAudioContext # "null"
    /\ \A i \in DOMAIN units : units[i].status \in UnitStatus
    /\ scheduledSources \subseteq DOMAIN units
    /\ clock \in 0..MaxTime

\* ================================================================ claims
Max(a, b) == IF a >= b THEN a ELSE b

\* a terminal event has happened: the caller called disconnect, or the
\* remote connection reported an error or closed
TerminalEvent == callerDisconnects > 0 \/ remote \in {"errored", "closed"}

\* this step is a call of disconnect(), from the caller or from onclose /
\* onerror
DisconnectCalled ==
    \/ callerDisconnects' # callerDisconnects
    \/ remote' # remote /\ remote' \in {"errored", "closed"}

\* the remote connection failed before onopen ran
HandshakeFailed == remote \in {"errored", "closed"} /\ mimeType = "unread"

\* the remote connection closed or failed after it had been opened
RemoteTerminal == remote \in {"errored", "closed"} /\ mimeType # "unread"

\* C1: whatever terminal events occur (caller disconnect, onclose, onerror,
\* in any number and order), once no disconnect is in progress onDisconnect
\* has been invoked exactly once.
C1_OnDisconnectExactlyOnce ==
    (TerminalEvent /\ pcDisconnect = "idle") => onDisconnectCount = 1

\* C2: a disconnect called while another disconnect is suspended on the
\* closure of an audio context is a no-op: it closes no context again,
\* raises no error and does not invoke onDisconnect.
C2_OverlappingDisconnectNoOp ==
    [][(pcDisconnect # "idle" /\ DisconnectCalled) =>
          /\ disconnectErrors' = disconnectErrors
          /\ onDisconnectCount' = onDisconnectCount
          /\ inCtxState' = inCtxState /\ outCtxState' = outCtxState]_vars

\* C3: when disconnect was invoked while connect was suspended, then once
\* connect and every disconnect have finished, the microphone stream, the
\* remote connection and the capture processor are released.
C3_CancelledConnectReleasesAll ==
    (discDuringConnect /\ pcConnect \in {"done", "rejected"}
        /\ pcDisconnect = "idle")
    => /\ micTracks # "live"
       /\ remote \notin {"connecting", "open"}
       /\ procNode # "connected"

\* C4: when microphone acquisition fails, connect rejects and the teardown
\* has run: no audio context is left open and no volume timer running.
C4_FailedConnectTearsDown ==
    pcConnect = "rejected" =>
        /\ inCtxState # "open" /\ outCtxState # "open"
        /\ ~timerRunning

\* C5: when the remote endpoint fails the handshake (overload, 503), the
\* connect call has rejected and no microphone resource remains acquired.
C5_HandshakeFailureRejectsConnect ==
    HandshakeFailed => (pcConnect = "rejected" /\ micTracks # "live")

\* every unit scheduled before the latest flush has been stopped or has ended
FlushedUnitsStopped ==
    \A i \in DOMAIN units :
        units[i].epoch < flushCount => units[i].status # "scheduled"

\* every step of the teardown has been carried out
TeardownDone ==
    /\ flushCount > 0 /\ FlushedUnitsStopped
    /\ volumeInterval = "null" /\ ~timerRunning
    /\ processor = "null" /\ procNode # "connected"
    /\ source = "null" /\ srcNode # "connected"
    /\ mediaStream = "null" /\ micTracks = "stopped"
    /\ inputAudioContext = "null" /\ inCtxState = "closed"
    /\ outputAudioContext = "null" /\ outCtxState = "closed"
    /\ session = "null"
    /\ onDisconnectCount >= 1

\* C6: whenever the remote connection closes or reports an error after the
\* session was opened, the full teardown eventually completes: playback
\* flushed, timer cleared, processor and source disconnected, microphone
\* tracks stopped, both contexts closed, connection handle cleared and
\* onDisconnect delivered.
C6_RemoteTerminalLeadsToTeardown == RemoteTerminal ~> TeardownDone

\* witness of C6: the connection was opened, with the capture graph built,
\* then closed or failed, and the teardown is complete
C6_Witness == RemoteTerminal /\ TeardownDone /\ procNode = "disconnected"

\* unit k was scheduled with no flush since unit k-1 was
Consecutive(k) == k > 1 /\ units[k - 1].epoch = units[k].epoch

UnitEnd(k) == units[k].start + units[k].dur

\* C7: with no flush in between, segment k starts at max(end of segment
\* k-1, playback clock when it is scheduled) and the cursor is its start
\* plus its duration, so scheduled segments never overlap and a segment
\* that arrives no later than the previous end starts exactly at that end;
\* the first segment of a sequence starts at the clock.
C7_StartIsMaxOfPrevEndAndClock ==
    \A k \in DOMAIN units :
        /\ units[k].start =
              IF Consecutive(k) THEN Max(UnitEnd(k - 1), units[k].clockAt)
              ELSE units[k].clockAt
        /\ (Consecutive(k) /\ units[k].clockAt <= UnitEnd(k - 1))
              => units[k].start = UnitEnd(k - 1)
        /\ \A j \in 1..(k - 1) :
              units[j].epoch = units[k].epoch => UnitEnd(j) <= units[k].start
        /\ (k = Len(units) /\ units[k].epoch = flushCount)
              => nextStartTime = UnitEnd(k)

\* witness of C7: two segments of the same length scheduled back to back
\* span exactly twice that length, with no gap
C7_Witness ==
    /\ Len(units) >= 2 /\ Consecutive(2)
    /\ units[1].dur = units[2].dur
    /\ units[2].start = UnitEnd(1)
    /\ UnitEnd(2) - units[1].start = 2 * units[1].dur
    /\ flushCount = units[2].epoch /\ nextStartTime = UnitEnd(2)

C9_FlushStopsAndRemovesAll ==
    [][/\ flushCount' # flushCount =>
            /\ scheduledSources' = {}
            /\ \A i \in scheduledSources : units'[i].status = "stopped"
       /\ \A i \in DOMAIN units :
            units[i].status = "stopped" =>
                /\ units'[i].status = "stopped"
                /\ i \notin scheduledSources']_vars

\* witness of C9: a flush has stopped a unit, after which another unit was
\* scheduled
C9_Witness ==
    /\ \E i \in DOMAIN units : units[i].status = "stopped"
    /\ scheduledSources # {}

\* the next unit to be scheduled is the first one since a flush
FirstAfterFlush ==
    /\ flushCount > 0
    /\ units # << >> => units[Len(units)].epoch < flushCount

\* C10: an interruption signal empties the active set in the step that
\* handles it, and the first segment scheduled after a flush starts at the
\* playback clock, not at the end of the cancelled segments.
C10_InterruptEmptiesSetAndRestartsAtNow ==
    [][/\ (msgCount' # msgCount /\ flushCount' # flushCount)
            => scheduledSources' = {}
       /\ (Len(units') > Len(units) /\ FirstAfterFlush)
            => units'[Len(units')].start = clock]_vars

\* witness of C10: a segment was cancelled by a flush before its end, and
\* the segment scheduled next starts before the cancelled one would have
\* ended
C10_Witness ==
    \E k \in DOMAIN units :
        /\ k > 1 /\ units[k - 1].status = "stopped"
        /\ units[k - 1].epoch < units[k].epoch
        /\ units[k].start = units[k].clockAt
        /\ units[k].start < UnitEnd(k - 1)

\* the volume monitor was started by connect and disconnect has cleared it
MonitorStopped == pcConnect # "idle" /\ volumeInterval = "null"

\* C11: once disconnect has cleared the volume timer, onVolume is not
\* invoked again, also when a run of the timer callback was already queued
\* at that moment.
C11_NoVolumeAfterStop ==
    [][MonitorStopped => onVolumeCount' = onVolumeCount]_vars

\* witness of C11: the monitor was stopped while a run of its callback was
\* queued
C11_Witness == MonitorStopped /\ tickPending /\ ~timerRunning

\* C12: when the media type is an image, once the connection has been
\* opened the artifact has been sent exactly once, as the first outbound
\* message, ahead of every audio frame; nothing is sent before the open.
C12_ImageOnceBeforeAudio ==
    /\ mimeType = "unread" => outbound = << >>
    /\ mimeType = "image/jpeg" =>
          /\ outbound # << >> /\ outbound[1] = "image"
          /\ \A i \in 2..Len(outbound) : outbound[i] # "image"

\* witness of C12: an image session in which an audio frame followed the
\* image
C12_Witness ==
    /\ mimeType = "image/jpeg" /\ Len(outbound) >= 2
    /\ outbound[1] = "image" /\ outbound[2] = "audio"

\* C13: onDisconnect is invoked only by a step of disconnect, after the
\* caller has called disconnect or the remote connection has closed or
\* failed; a step that handles an inbound message (speech or interruption),
\* finishes a decode, runs the volume timer or submits an audio frame never
\* invokes it.
C13_OnDisconnectNeverSpontaneous ==
    [][onDisconnectCount' # onDisconnectCount =>
          /\ TerminalEvent'
          /\ msgCount' = msgCount /\ pendingDecodes' = pendingDecodes
          /\ outbound' = outbound
          /\ tickPending' = tickPending /\ onVolumeCount' = onVolumeCount
      ]_vars

\* witness of C13: a session that received speech, scheduled it, reported
\* a volume sample and sent an audio frame, all without onDisconnect, and
\* was torn down when the remote connection closed
C13_Witness ==
    /\ callerDisconnects = 0 /\ remote = "closed"
    /\ onDisconnectCount = 1 /\ outCtxState = "closed"
    /\ msgCount >= 1 /\ units # << >>
    /\ onVolumeCount >= 1 /\ Len(Frames(outbound)) >= 1

\* C14 as stated: no step lowers the playback timeline cursor, whether it
\* enqueues a segment or flushes the playback.
C14_CursorNeverDecreases ==
    [][nextStartTime' >= nextStartTime]_vars

\* C14, amended: a step that enqueues a segment never lowers the cursor,
\* so it is non-decreasing between two flushes; a flush sets it to 0,
\* below the end of what was queued.
C14_CursorMonotonicBetweenFlushes ==
    [][IF flushCount' = flushCount
       THEN nextStartTime' >= nextStartTime
       ELSE nextStartTime' = 0]_vars

\* witness of C14: two segments were enqueued with no flush, the cursor
\* stands at the end of the second, and a flush came before them
C14_Witness ==
    /\ Len(units) >= 2 /\ Consecutive(2) /\ units[2].epoch = flushCount
    /\ flushCount > 0
    /\ nextStartTime = UnitEnd(2) /\ nextStartTime > UnitEnd(1)

\* every handle of the client is cleared and the object it referred to is
\* released
AllHandlesReleased ==
    /\ volumeInterval = "null" /\ ~timerRunning
    /\ processor = "null" /\ procNode # "connected"
    /\ source = "null" /\ srcNode # "connected"
    /\ mediaStream = "null" /\ micTracks # "live"
    /\ inputAudioContext = "null" /\ inCtxState \notin {"open", "closing"}
    /\ outputAudioContext = "null"
    /\ outCtxState \notin {"open", "closing"}
    /\ session = "null"

\* C15: a call of disconnect raises no error whatever handles are
\* unacquired or already released when it is made, and when a call of
\* disconnect ends every handle is released and cleared.
C15_TeardownToleratesReleasedHandles ==
    [][/\ disconnectErrors' = disconnectErrors
       /\ onDisconnectCount' # onDisconnectCount => AllHandlesReleased'
      ]_vars

\* this step is the continuation of the oldest pending decode
DecodeResumes ==
    pendingDecodes # << >> /\ pendingDecodes' = Tail(pendingDecodes)

\* C16: when the decode of a segment fails, the failure is logged and
\* nothing else happens: no field of the client changes (cursor and active
\* set included), no unit is scheduled or stopped, no teardown starts and
\* onDisconnect is not invoked; and a segment whose decode succeeds while
\* the playback context is still held is scheduled whatever failed before.
C16_DecodeFailureLoggedAndSkipped ==
    [][/\ (DecodeResumes /\ ~Head(pendingDecodes).ok) =>
            /\ decodeErrors' = decodeErrors + 1
            /\ fieldVars' = fieldVars /\ units' = units
            /\ pcDisconnect' = pcDisconnect /\ flushCount' = flushCount
            /\ onDisconnectCount' = onDisconnectCount
       /\ (DecodeResumes /\ Head(pendingDecodes).ok
              /\ outputAudioContext # "null") =>
            /\ Len(units') = Len(units) + 1
            /\ Len(units') \in scheduledSources'
            /\ decodeErrors' = decodeErrors
      ]_vars

\* witness of C16: in a healthy session the decode of the first message
\* failed and the segment of the second message was scheduled after it
C16_Witness ==
    /\ ~TerminalEvent /\ decodeErrors = 1
    /\ Len(units) = 1 /\ units[1].seq = 2
    /\ units[1].status = "scheduled" /\ 1 \in scheduledSources

\* this step submits an audio frame whose send fails
SendFails == Len(Failed(outbound')) > Len(Failed(outbound))

C20_OnDisconnectAfterReleases ==
    [][onDisconnectCount' # onDisconnectCount =>
          /\ ~timerRunning' /\ volumeInterval' = "null"
          /\ micTracks' # "live"
          /\ inCtxState' \notin {"open", "closing"}
          /\ outCtxState' \notin {"open", "closing"}
      ]_vars

\* client r holds a resource of the device: a live microphone stream, an
\* open audio context or a running volume timer
HoldsResources(r) ==
    r.mic = "live" \/ r.inCtx = "open" \/ r.outCtx = "open" \/ r.timer

\* C18: under any sequence of presses of the microphone button, at most
\* one of the LiveClients the App has created holds acquired resources.
C18_AtMostOneActiveClient ==
    Cardinality({c \in DOMAIN clients : HoldsResources(clients[c])}) <= 1

\* client c was created by the latest press, its connect call and every
\* disconnect call on it have finished
Settled(c) ==
    /\ clients[c].press = presses
    /\ clients[c].pcConnect # "awaitMic"
    /\ clients[c].pcDisconnect = "idle"

\* C19: once a session that failed while connecting has settled, the App
\* shows "Service busy. Please try again." when the remote end refused the
\* handshake with 503 and "Connection failed." for any other failure, with
\* isMicActive false and the client reference cleared.
C19_OverloadShownAsServiceBusy ==
    \A c \in DOMAIN clients :
        (Settled(c) /\ ~clients[c].opened
            /\ (clients[c].pcConnect = "rejected"
                   \/ clients[c].failure # "none")) =>
            /\ liveError = IF clients[c].failure = "503" THEN ErrorBusy
                           ELSE ErrorFailed
            /\ ~isMicActive /\ liveClientRef = 0

\* this step submits an audio frame, whether its send succeeds or not
FrameSubmitted == Len(Frames(outbound')) > Len(Frames(outbound))

\* the teardown of the session has completed: a disconnect called after
\* connect has cleared the monitor and no call of disconnect is in progress
TeardownReturned == MonitorStopped /\ pcDisconnect = "idle"

\* C21: every audio frame is submitted after the remote-open acknowledgment
\* (onopen has run) and before the teardown of the session has completed;
\* this covers the send itself, which runs in a then-callback of the session
\* promise.
C21_FramesOnlyBetweenOpenAndTeardown ==
    [][FrameSubmitted => (mimeType # "unread" /\ ~TeardownReturned)]_vars

\* witness of C21: a frame was sent on the open connection and the
\* teardown has completed since, with the capture processor disconnected
C21_Witness ==
    /\ Len(Sent(outbound)) >= 1 /\ TeardownReturned
    /\ onDisconnectCount = 1 /\ procNode = "disconnected"
    /\ inCtxState = "closed"
\* C22: when the media type is not an image (application/pdf), no message
\* carrying the artifact is ever sent, and onopen still builds the capture
\* graph, so that audio frames are streamed on the open connection.
C22_NonImageSendsNoArtifact ==
    mimeType = "application/pdf" =>
        /\ \A i \in DOMAIN outbound : outbound[i] # "image"
        /\ ~TerminalEvent => (procNode = "connected" /\ srcNode = "connected")

\* witness of C22: a session opened with a PDF whose first and only
\* outbound message is an audio frame
C22_Witness ==
    /\ mimeType = "application/pdf" /\ ~TerminalEvent
    /\ outbound = <<"audio">>
\* the active set holds exactly the units that were scheduled and have
\* neither ended nor been stopped by a flush
ActiveSetExact ==
    scheduledSources = {i \in DOMAIN units : units[i].status = "scheduled"}

\* this step runs the onended handler of a unit that a flush had stopped
EndedAfterStop ==
    \E i \in endedFired' \ endedFired : units[i].status = "stopped"

\* C23: the active set holds exactly the units scheduled and neither ended
\* nor flushed: scheduling a unit adds it, its onended handler removes it,
\* and the onended handler of a unit already removed by a flush changes
\* neither the set, nor any unit, nor the cursor.
C23_ActiveSetIsScheduledUnits ==
    [][/\ ActiveSetExact /\ ActiveSetExact'
       /\ Len(units') > Len(units) => Len(units') \in scheduledSources'
       /\ EndedAfterStop =>
            /\ scheduledSources' = scheduledSources /\ units' = units
            /\ nextStartTime' = nextStartTime]_vars

\* witness of C23: of two units one ended by itself and the other was
\* stopped by a flush and has had its ended event since; a third could be
\* scheduled but none is: the set is empty
C23_Witness ==
    /\ Len(units) = 2 /\ scheduledSources = {}
    /\ units[1].status = "ended" /\ units[2].status = "stopped"
    /\ endedFired = {1, 2}
\* a level lies in [0,1]
InUnitInterval(l) == l.den > 0 /\ 0 <= l.num /\ l.num <= l.den

\* level l is the mean of the bytes of bins divided by 255
IsNormalizedMean(l, bins) ==
    l.num * (Len(bins) * 255) = SumBytes(bins) * l.den

\* C24: both levels handed to onVolume lie in [0,1]; each is the mean of
\* the bytes read from its own tap divided by 255, whatever the other tap
\* holds; and for an absent tap the level computed is 0.
C24_VolumeLevelsNormalized ==
    /\ \A k \in DOMAIN volumeSample :
          /\ InUnitInterval(volumeSample[k].userVol)
          /\ InUnitInterval(volumeSample[k].aiVol)
          /\ IsNormalizedMean(volumeSample[k].userVol,
                              volumeSample[k].inBins)
          /\ IsNormalizedMean(volumeSample[k].aiVol,
                              volumeSample[k].outBins)
    /\ \A bins \in BinData : getVolume("null", bins).num = 0

\* witness of C24: a sample with the loudest input (level 1) next to a
\* silent output (level 0)
C24_Witness ==
    \E k \in DOMAIN volumeSample :
        /\ \A i \in 1..NumBins : volumeSample[k].inBins[i] = 255
        /\ volumeSample[k].userVol.num = volumeSample[k].userVol.den
        /\ volumeSample[k].outBins = Silence
        /\ volumeSample[k].aiVol.num = 0

\* the interval timers of the client that are active in the browser
RunningTimers == orphanTimers + (IF timerRunning THEN 1 ELSE 0)

\* this step is the synchronous part of a call of connect
ConnectCalled == pcConnect # "awaitMic" /\ pcConnect' = "awaitMic"

\* C25: at most one volume timer of the client is running at any time,
\* over connect and disconnect calls repeated on the same client: a call of
\* connect leaves exactly one running, also when one was running before,
\* and a call of disconnect leaves none.
C25_AtMostOneVolumeTimer ==
    [][/\ RunningTimers <= 1 /\ RunningTimers' <= 1
       /\ ConnectCalled => RunningTimers' = 1
       /\ DisconnectCalled => RunningTimers' = 0]_vars

\* witness of C25: connect was called again while the timer of the first
\* call was running, and the one disconnect made since has left no timer
C25_Witness ==
    /\ reconnects = 1 /\ callerDisconnects = 1
    /\ remote \in {"none", "connecting"}
    /\ pcConnect # "idle" /\ RunningTimers = 0 /\ volumeInterval = "null"
\* C26: a segment whose payload arrived before an interruption signal, or
\* in the message that carried the signal, is not scheduled once the signal
\* has been handled, also when its decode was in flight at the flush.
C26_InterruptedSegmentNeverStarts ==
    [][(DecodeResumes /\ Len(units') > Len(units))
          => ~Head(pendingDecodes).interrupted]_vars
\* C27: once the teardown has completed the active set is empty, whatever
\* speech arrived or finished decoding while disconnect was suspended or
\* after it returned.
C27_ActiveSetEmptyAfterDisconnect ==
    TeardownReturned => scheduledSources = {}
\* C28: after a disconnect called by the caller on a connected client has
\* returned, the remote connection is closed: no inbound message is handled
\* and no onopen, onclose or onerror callback of the session runs.
C28_CallerDisconnectClosesRemote ==
    [][(TeardownReturned /\ callerDisconnects > 0 /\ ~discDuringConnect) =>
          /\ remote \notin {"connecting", "open"}
          /\ msgCount' = msgCount /\ remote' = remote]_vars
\* a call of toggleLiveSession is suspended, on connect or on disconnect
ToggleInProgress ==
    \E c \in DOMAIN clients :
        clients[c].pcConnect = "awaitMic" \/ clients[c].awaited

\* the UI shows no live session
UiInactive == ~isMicActive /\ liveClientRef = 0

\* C29: whenever the UI is inactive and no toggle is in progress, none of
\* the LiveClients the App has created holds an open audio context, a live
\* microphone stream or a running volume timer.
C29_InactiveUiHoldsNothing ==
    (UiInactive /\ ~ToggleInProgress) =>
        \A c \in DOMAIN clients : ~HoldsResources(clients[c])
\* this step ends a call of disconnect on client c, which invokes the
\* onDisconnect callback the App gave to c: the step is a callback of c's
\* connection or the resumption of c's disconnect, and it leaves no context
\* of c to be closed
OnDisconnectFrom(c) ==
    /\ presses' = presses
    /\ clients'[c].pcConnect = clients[c].pcConnect
    /\ \/ /\ clients'[c].remote # clients[c].remote
          /\ clients'[c].remote \in {"errored", "closed"}
       \/ /\ clients'[c].remote = clients[c].remote
          /\ clients[c].pcDisconnect # "idle"
    /\ clients'[c].pcDisconnect = "idle"
    /\ ~Held(clients'[c].inCtx) /\ ~Held(clients'[c].outCtx)

\* C30: an onDisconnect callback of a client leaves liveClientRef and
\* isMicActive alone while the ref holds a client created after it.
C30_StaleOnDisconnectIgnored ==
    [][\A c \in DOMAIN clients :
          (OnDisconnectFrom(c) /\ liveClientRef > c) =>
              /\ liveClientRef' = liveClientRef
              /\ isMicActive' = isMicActive]_vars

\* a step of capturePage, and one of handleFileUpload with the files chosen
CaptureStep == shutter' # shutter
UploadStep == Len(uploads') = Len(uploads) + 1
ChosenFiles == uploads'[Len(uploads')].files
Refused(type) ==
    /\ capturedPages' = capturedPages
    /\ limitAlert' = type
    /\ alertTimers' = alertTimers + 1

\* C35: the page list never holds more than MAX_PAGES pages, whatever the
\* order of camera captures, removals, image uploads and PDF uploads.  A
\* capture made when one more page would pass the limit, and an upload of
\* images that would pass it when appended, leave the list unchanged and
\* raise the "count" alert; an upload of a PDF together with other files
\* leaves it unchanged and raises the "pdf" alert, and such an upload never
\* reads its files.
C35_PageCountWithinLimit ==
    /\ [](Len(capturedPages) <= MAX_PAGES)
    /\ [][/\ CaptureStep /\ Len(capturedPages) + 1 > MAX_PAGES
               => Refused("count")
          /\ UploadStep /\ ~HasPdf(ChosenFiles)
                /\ Len(capturedPages) + Len(ChosenFiles) > MAX_PAGES
               => Refused("count") /\ uploads'[Len(uploads')].pc = "refused"
          /\ UploadStep /\ HasPdf(ChosenFiles) /\ Len(ChosenFiles) > 1
               => Refused("pdf") /\ uploads'[Len(uploads')].pc = "refused"
         ]_vars

\* the camera screen holds MAX_PAGES pages and shows the count alert of a
\* refused capture, after an upload of too many images and one of a PDF with
\* an image were refused and an upload of images was read
C35_Witness ==
    /\ Len(capturedPages) = MAX_PAGES
    /\ showWebcam /\ limitAlert = "count"
    /\ \E u \in DOMAIN uploads :
          uploads[u].pc = "refused" /\ HasPdf(uploads[u].files)
    /\ \E u \in DOMAIN uploads :
          uploads[u].pc = "refused" /\ ~HasPdf(uploads[u].files)

\* steps of run r of processDocument: the race of line 521 settles, the
\* comic is lost (generateComicStrip rejects or the timeout fires), the run
\* enters its catch block
RaceSettles(r) == runs[r].pc = "awaitComic" /\ runs'[r].pc # "awaitComic"
ComicLost(r) ==
    \/ runs[r].comic = "pending" /\ runs'[r].comic = "rejected"
    \/ runs[r].timer = "armed" /\ runs'[r].timer = "fired"
RunCaught(r) == runs[r].pc # "failed" /\ runs'[r].pc = "failed"
\* the original image of the first page of run r, as a data URL
FirstPageImage(r) ==
    DataUrl(runs[r].pages[1].mimeType, runs[r].pages[1].base64)
PlaybackFails(r) ==
    \E p \in DOMAIN plays :
        /\ plays[p].caller = r
        /\ plays[p].pc # "failed" /\ plays'[p].pc = "failed"

\* C31: a rejection of generateComicStrip, or the timeout firing first, is
\* never what sends processDocument to its catch block.  When the race is
\* settled by either, the comic becomes the data URL of the first page of
\* the run, and the run sets READY as soon as its narration is there, at
\* that step or at the later one where the narration arrives.  A run enters
\* its catch block, and the app ERROR, only at a step where analyzeDocument
\* rejects, where the narration is or has been found rejected, or where
\* playAudio rejects.
C31_ComicFailureNeverError ==
    [][/\ \A r \in DOMAIN runs :
            /\ RaceSettles(r)
                  => comicUrl' \in {<<ComicImage>>,
                                    <<FirstPageImage(r)>>}
            /\ RaceSettles(r) /\ ComicLost(r)
                  => /\ comicUrl' = <<FirstPageImage(r)>>
                     /\ runs[r].audio = "resolved" => appState' = "READY"
                     /\ RunCaught(r) => runs[r].audio = "rejected"
            /\ ComicLost(r) /\ ~RaceSettles(r)
                  => UNCHANGED <<appState, comicUrl>>
            /\ runs[r].pc = "awaitAudio" /\ runs'[r].audio = "resolved"
                  => appState' = "READY"
            /\ RunCaught(r)
                  => \/ runs[r].pc = "awaitAnalysis"
                     \/ runs'[r].audio = "rejected"
                     \/ PlaybackFails(r)
       /\ appState' = "ERROR" /\ appState # "ERROR"
            => \E r \in DOMAIN runs : RunCaught(r)
      ]_vars

\* one run whose timeout fired has ended and the app is READY with another
\* run of two pages whose comic generation was rejected, showing the first
\* page in place of the comic
C31_Witness ==
    /\ appState = "READY"
    /\ \E r1, r2 \in DOMAIN runs :
          /\ runs[r1].timer = "fired" /\ runs[r1].pc = "done"
          /\ runs[r2].comic = "rejected" /\ runs[r2].pc = "awaitPlay"
          /\ Len(runs[r2].pages) = 2
          /\ comicUrl = <<FirstPageImage(r2)>>

\* the order of the App's states on the way to READY
StateBefore(s) ==
    CASE s = "ANALYZING" -> {"LANDING", "CAPTURING"}
      [] s = "GENERATING_ART" -> {"ANALYZING"}
      [] s = "READY" -> {"GENERATING_ART"}
      [] OTHER -> {"LANDING", "CAPTURING", "ANALYZING", "GENERATING_ART",
                   "READY", "ERROR"}

\* C32: whenever appState is READY, analysis and comicUrl are both set; the
\* step that sets READY belongs to a run that has its comic (or the
\* fallback) and its narration; and appState becomes ANALYZING only from
\* LANDING or CAPTURING, GENERATING_ART only from ANALYZING and READY only
\* from GENERATING_ART.
C32_ReadyHasAnalysisAndComic ==
    /\ [](appState = "READY" => analysis # 0 /\ comicUrl # << >>)
    /\ [][appState' # appState
            => /\ appState \in StateBefore(appState')
               /\ appState' = "READY"
                    => \E r \in DOMAIN runs :
                          /\ runs[r].pc # "awaitPlay"
                          /\ runs'[r].pc = "awaitPlay"
                          /\ runs'[r].audio = "resolved"
                          /\ analysis' # 0 /\ comicUrl' # << >>
      ]_vars

\* a step in which a call of processDocument made earlier goes on
RunContinues == \E r \in DOMAIN runs : runs'[r] # runs[r]

\* C33: only resetApp sets LANDING, so a run that goes on while appState is
\* LANDING was started before that reset; such a step leaves appState,
\* analysis and comicUrl as the reset set them.
C33_ResetSilencesEarlierRuns ==
    [][appState = "LANDING" /\ RunContinues
          => UNCHANGED <<appState, analysis, comicUrl>>]_vars

\* the narration sources that are playing
PlayingSources ==
    {i \in DOMAIN audioSources : audioSources[i].status = "playing"}

\* C34: at most one source started by playAudio is playing in any state,
\* also after two calls of playAudio whose awaits overlapped; and a call of
\* playAudio leaves no source playing when it reaches its first await.
C34_AtMostOneNarrationPlaying ==
    /\ [](Cardinality(PlayingSources) <= 1)
    /\ [][Len(plays') = Len(plays) + 1
            => /\ currentAudioSource' = 0
               /\ currentAudioSource # 0
                    => audioSources'[currentAudioSource].status # "playing"
      ]_vars
====
